---- MODULE Spec2Model ----
(***************************************************************************)
(* OmniAgent turn runtime: the Context Assembler                           *)
(* (SessionManager.get_context_and_update_state), the Turn Engine          *)
(* (Runner._handle_query) and the run / run_stream layer with its          *)
(* persistence step (SessionManager.update_user_session,                   *)
(* Session.insert_messages).                                               *)
(***************************************************************************)
EXTENDS Integers, Sequences, FiniteSets, TLC

\* ------------------------------------------------------------------------
\* Bounds of the model
\* ------------------------------------------------------------------------
MaxLen == 3          \* longest fetched message list (assembler inputs)
MaxTurn == 3         \* largest turn number of an assembler input
MaxTok == 2          \* largest token count of one message
MaxThreshold == 4    \* largest token threshold tried

\* Python's None, where the other values are records
None == [none |-> TRUE]

\* ------------------------------------------------------------------------
\* Context Assembler: the pure part of get_context_and_update_state
\* ------------------------------------------------------------------------
RECURSIVE Reverse(_)
Reverse(s) ==
    IF s = <<>> THEN <<>> ELSE Append(Reverse(Tail(s)), Head(s))

RECURSIVE SumTokens(_)
SumTokens(s) ==
    IF s = <<>> THEN 0 ELSE Head(s).token_count + SumTokens(Tail(s))

TurnsOf(s) == {s[i].turn_number : i \in DOMAIN s}

\* end_turn_number = summary.end_turn_number if summary else 0
end_turn_number(summary) ==
    IF summary = None THEN 0 ELSE summary.end_turn_number

\* a plausible slip: the boundary turn itself is treated as summarised
messages_after_summary_off_by_one(all_messages, summary) ==
    SelectSeq(all_messages,
              LAMBDA m : m.turn_number > end_turn_number(summary) + 1)

\* [m for m in all_messages if m.turn_number > end_turn_number]
messages_after_summary(all_messages, summary) ==
    SelectSeq(all_messages,
              LAMBDA m : m.turn_number > end_turn_number(summary))

\* a plausible slip: older_messages.reverse() is left out, so the oldest
\* messages are pulled first
older_messages_not_reversed(all_messages, summary) ==
    SelectSeq(all_messages,
              LAMBDA m : m.turn_number <= end_turn_number(summary))

\* [m for m in all_messages if m.turn_number <= end_turn_number], reversed
older_messages(all_messages, summary) ==
    Reverse(SelectSeq(all_messages,
                      LAMBDA m : m.turn_number <= end_turn_number(summary)))

\* the for loop over older_messages: add, insert at the front, break once
\* the running total reaches the threshold
RECURSIVE PullOlder(_, _, _, _)
PullOlder(older, context, total, T) ==
    IF older = <<>>
    THEN [context_messages |-> context, total |-> total]
    ELSE LET message == Head(older)
             total2 == total + message.token_count
             context2 == <<message>> \o context
         IN  IF total2 >= T
             THEN [context_messages |-> context2, total |-> total2]
             ELSE PullOlder(Tail(older), context2, total2, T)

\* a plausible slip: the comparison that guards the pull is inverted
collect_context_inverted(all_messages, summary, T) ==
    LET after == messages_after_summary(all_messages, summary)
        total == SumTokens(after)
    IN  IF total > T
        THEN PullOlder(older_messages(all_messages, summary), after, total, T)
        ELSE [context_messages |-> after, total |-> total]

\* steps 2-4: start from the messages after the summary and, if they are
\* under the threshold, pull older ones
collect_context(all_messages, summary, T) ==
    LET after == messages_after_summary(all_messages, summary)
        total == SumTokens(after)
    IN  IF total < T
        THEN PullOlder(older_messages(all_messages, summary), after, total, T)
        ELSE [context_messages |-> after, total |-> total]

\* what the assembler returns and writes to the state for a fetched list;
\* with no fetched message it returns early and leaves the counters alone
assemble(all_messages, summary, T) ==
    IF all_messages = <<>>
    THEN [messages |-> <<>>, summary |-> summary, updates_state |-> FALSE,
          turns_after_last_summary |-> 0,
          total_token_after_last_summary |-> 0]
    ELSE LET c == collect_context(all_messages, summary, T)
         IN  [messages |-> c.context_messages, summary |-> summary,
              updates_state |-> TRUE,
              turns_after_last_summary |->
                  Cardinality(TurnsOf(messages_after_summary(all_messages, summary))),
              total_token_after_last_summary |-> c.total]

\* ------------------------------------------------------------------------
\* State
\* ------------------------------------------------------------------------
VARIABLES
    MAX_TOKEN_THRESHOLD,  \* config.MAX_TOKEN_THRESHOLD (read from the environment)
    asm_in,               \* assembler harness: the fetched list and summary
    asm_out,              \* assembler harness: None or the assembled result
    user_row,             \* store: the user row of the client exists
    session_row,          \* store: None or the session row (latest_turn_number)
    messages,             \* store: the message rows of the session, in order
    summaries,            \* store: the summary rows of the session, in order
    runner,               \* per task: a Runner with its SessionManager
    registry,             \* task registry: session id -> None or the task
    persistence,          \* persistence runtime: the active backend and
                          \* context, and the calls that initialise them
    env                   \* the surroundings: which tasks call run, and how
                          \* many more tool calls the model will ask for

vars == <<MAX_TOKEN_THRESHOLD, asm_in, asm_out,
          user_row, session_row, messages, summaries, runner, registry,
          persistence, env>>

asm_vars == <<asm_in, asm_out>>
store_vars == <<user_row, session_row, messages, summaries>>

\* ------------------------------------------------------------------------
\* Bounds and constants of the turn engine
\* ------------------------------------------------------------------------
Procs == {"t1", "t2"}   \* tasks that call run / run_stream on the session
MaxRuns == 2            \* turns one task runs one after the other
MaxFaults == 2          \* store and provider calls that fail
MaxChunks == 1          \* streamed chunks of one AI message
MaxConcRuns == 3        \* turns two tasks run, overlapping in time
MaxConcFaults == 1      \* store and provider calls that fail meanwhile
MaxConcToolCalls == 1   \* tool calls the model asks for meanwhile
MaxRegistryRuns == 2    \* streaming turns two tasks run, overlapping in time
MaxStreamRuns == 2      \* streaming turns one task runs
MaxStreamFaults == 2    \* store and provider calls that fail meanwhile
MaxStreamToolCalls == 1 \* tool calls the model asks for meanwhile
MaxEngineRuns == 2      \* queries one task hands to run, one after the other
MaxEngineFaults == 1    \* store and provider calls that fail meanwhile
MaxEngineToolCalls == 12 \* tool calls the model asks for, over all queries
MaxFetchRuns == 3       \* turns one task runs on a session with a short fetch
MaxTurnsToFetch == 1    \* MAX_TURNS_TO_FETCH set through the environment
MaxMixedRuns == 2       \* runs of every kind two tasks start, overlapping
MaxMixedFaults == 2     \* store calls that fail meanwhile
MaxInitCalls == 3       \* calls of initialize_persistence
MaxShutdowns == 1       \* calls of shutdown_persistence

MAX_STEPS == 10
MAX_TURNS_TO_FETCH == 100

\* how the caller runs a query: run, run_stream, or run_stream on a Runner
\* whose options.stream is False
Modes == {"run", "run_stream", "run_stream_unstreamed"}

\* a plausible slip: the callback alone enables streaming
stream_enabled_ignoring_options(mode) == mode # "run"

\* stream_enabled = self.options.stream and on_stream_event is not None:
\* run passes no callback, run_stream passes the one that fills its queue
stream_enabled(mode) == mode = "run_stream"

\* run_stream makes a queue, a result future and an event generator,
\* whatever options.stream is
via_run_stream(mode) == mode # "run"

\* the session id the caller passes: the one session, or none at all
SessionIds == {"s1", "none"}

\* errors that _handle_query re-raises
IdentityErrors ==
    {"SessionNotFoundError", "UserNotFoundError", "MessageRetrievalError"}

Max(a, b) == IF a >= b THEN a ELSE b

\* a plausible slip: the step-limit error is listed with the re-raised ones
handler_of_reraising_step_limit(err) ==
    IF err \in IdentityErrors \cup {"MaxStepsReachedError"}
    THEN "raise" ELSE "fallback"

\* a plausible slip: the re-raising except clause is missing
handler_of_all_fallback(err) == "fallback"

\* the except clauses of _handle_query: identity errors are re-raised, every
\* other exception goes to the fallback handler
handler_of(err) ==
    IF err \in IdentityErrors THEN "raise" ELSE "fallback"

\* ------------------------------------------------------------------------
\* Values
\* ------------------------------------------------------------------------
\* State(): the counters of a SessionManager right after construction
State_initial ==
    [turn_number |-> 1, step |-> 0,
     turns_after_last_summary |-> 0,
     total_token_after_last_summary |-> 0,
     active_summary |-> None]

\* MessageDTO.create_human_message(text=query)
user_query_message == [kind |-> "query", chunks |-> 1, error |-> FALSE]

\* MessageDTO.create_ai_message(), holding the chunks streamed so far
ai_message(chunks) == [kind |-> "answer", chunks |-> chunks, error |-> FALSE]

\* the fixed apology, metadata {"error": True}
error_message_dto == [kind |-> "apology", chunks |-> 1, error |-> TRUE]

\* create_fallback_messages(user_query_dto)
create_fallback_messages(user_query_dto) == <<user_query_dto, error_message_dto>>

\* a Runner and SessionManager before run is called
NewRunner ==
    [pc |-> "idle", run_no |-> 0, mode |-> "run", session_id |-> "none",
     state |-> State_initial,
     user |-> FALSE, session |-> None, new_chat |-> FALSE, new_user |-> FALSE,
     context_task |-> "none", fetch_skipped |-> FALSE, context |-> None,
     session_task |-> "none",
     summary |-> None, new_summary |-> None, chunks |-> 0,
     error |-> "", result |-> None,
     lts_at_start |-> 0, cancelled |-> FALSE,
     dangling |-> "none", persisted_summary |-> None,
     insert_failed |-> FALSE, detached |-> FALSE,
     queue |-> <<>>, future |-> "pending",
     consumer |-> "none", pulled |-> 0, received |-> <<>>,
     outcome |-> [kind |-> "none"],
     reused |-> FALSE, engine |-> <<>>, assembled |-> 0, invocations |-> 0,
     fetched |-> <<>>, appended |-> 0, returned_in |-> 0,
     step_error |-> None]

RunId(p) == [task |-> p, no |-> runner[p].run_no]

\* ------------------------------------------------------------------------
\* Store reads
\* ------------------------------------------------------------------------
\* Message.get_latest_by_session: rows with turn_number >= min_turn_number
get_latest_by_session(rows, current_turn_number, max_turns) ==
    LET min_turn_number == Max(1, current_turn_number - max_turns)
    IN  SelectSeq(rows, LAMBDA m : m.turn_number >= min_turn_number)

\* Summary.get_latest_by_session: the most recently created summary
get_latest_summary(rows) ==
    IF rows = <<>> THEN None ELSE rows[Len(rows)]

\* ------------------------------------------------------------------------
\* Task registry (register_task / cancel_task / unregister_task)
\* ------------------------------------------------------------------------
\* the keys of the registry: the session ids a caller can pass
RegistryKeys == SessionIds \ {"none"}

\* register_task(session_id, task): the last registration for a key wins
register_task(reg, session_id, task) == [reg EXCEPT ![session_id] = task]

\* unregister_task(session_id): removes the key, whatever it maps to
unregister_task(reg, session_id) == [reg EXCEPT ![session_id] = None]

\* _run_with_optional_stream on entry: the current task is registered under
\* the session id when streaming is enabled and a session id was given
registry_on_entry(reg, mode, session_id, task) ==
    IF stream_enabled(mode) /\ session_id # "none"
    THEN register_task(reg, session_id, task)
    ELSE reg

\* a plausible slip: the key is removed after the return only, not in a
\* finally clause
registry_on_exit_success_only(reg, r, kind) ==
    IF stream_enabled(r.mode) /\ r.session_id # "none" /\ kind = "returned"
    THEN unregister_task(reg, r.session_id)
    ELSE reg

\* _run_with_optional_stream on the way out, whether it returns or raises
\* (kind): the finally clause removes the key of the session id
registry_on_exit(reg, r, kind) ==
    IF stream_enabled(r.mode) /\ r.session_id # "none"
    THEN unregister_task(reg, r.session_id)
    ELSE reg

\* ------------------------------------------------------------------------
\* run / run_stream: entry
\* ------------------------------------------------------------------------
\* a task calls run (mode "run") or run_stream (mode "run_stream") on a
\* freshly constructed Runner and SessionManager; a streaming run gets its
\* queue, future and consumer, and registers itself
Run(p, mode, sid) ==
    /\ runner[p].pc \in {"idle", "done"}
    /\ runner[p].pc = "done" => ~env.reuse
    /\ p \in env.tasks
    /\ mode \in env.modes
    /\ sid \in env.session_ids
    /\ env.runs > 0
    /\ env' = [env EXCEPT !.runs = @ - 1]
    /\ runner' = [runner EXCEPT ![p] =
           [NewRunner EXCEPT
               !.pc = "context", !.run_no = runner[p].run_no + 1,
               !.mode = mode, !.session_id = sid,
               !.context_task = "pending", !.session_task = "pending",
               !.fetch_skipped = (NewRunner.new_chat \/ sid = "none"),
               !.consumer = IF via_run_stream(mode) THEN "pulling" ELSE "none",
               !.lts_at_start =
                   IF session_row = None THEN 0
                   ELSE session_row.latest_turn_number,
               !.reused = env.reuse,
               !.engine = <<"AWAITING_CONTEXT">>, !.assembled = 1]]
    /\ registry' = registry_on_entry(registry, mode, sid,
                                     [task |-> p, no |-> runner[p].run_no + 1])
    /\ UNCHANGED <<MAX_TOKEN_THRESHOLD, asm_vars, persistence, store_vars>>

\* the task calls run / run_stream again on the Runner it already used: the
\* SessionManager is the same object, so its state, user, session, new_chat
\* and new_user are what the previous query left; the locals of
\* _handle_query and of run_stream are new
RunAgain(p, mode) ==
    /\ runner[p].pc = "done"
    /\ runner[p].reused
    /\ p \in env.tasks
    /\ mode \in env.modes
    /\ env.runs > 0
    /\ env' = [env EXCEPT !.runs = @ - 1]
    /\ LET r == runner[p]
       IN  /\ runner' = [runner EXCEPT ![p] =
                  [NewRunner EXCEPT
                      !.pc = "context", !.run_no = r.run_no + 1,
                      !.mode = mode, !.session_id = r.session_id,
                      !.state = r.state, !.user = r.user,
                      !.session = r.session, !.new_chat = r.new_chat,
                      !.new_user = r.new_user,
                      !.context_task = "pending", !.session_task = "pending",
                      !.fetch_skipped = (r.new_chat \/ r.session_id = "none"),
                      !.consumer = IF via_run_stream(mode) THEN "pulling"
                                   ELSE "none",
                      !.lts_at_start =
                          IF session_row = None THEN 0
                          ELSE session_row.latest_turn_number,
                      !.reused = TRUE,
                      !.engine = <<"AWAITING_CONTEXT">>, !.assembled = 1]]
           /\ registry' = registry_on_entry(registry, mode, r.session_id,
                                            [task |-> p, no |-> r.run_no + 1])
    /\ UNCHANGED <<MAX_TOKEN_THRESHOLD, asm_vars, persistence, store_vars>>

\* ------------------------------------------------------------------------
\* get_context_and_update_state: the two gathered tasks
\* ------------------------------------------------------------------------
\* _fetch_context: its first statement runs when the task starts, before
\* _fetch_user_or_session can set new_chat; no store call for a new chat or
\* without a session id, otherwise the latest messages and latest summary
FetchContext(p) ==
    /\ runner[p].context_task = "pending"
    /\ LET r == runner[p]
           fetched ==
               IF r.fetch_skipped
               THEN [all_messages |-> <<>>, summary |-> None]
               ELSE [all_messages |->
                        get_latest_by_session(messages, r.state.turn_number,
                                              env.max_turns),
                     summary |-> get_latest_summary(summaries)]
       IN  runner' = [runner EXCEPT ![p] =
               [r EXCEPT !.context_task = "done",
                         !.fetched = fetched.all_messages,
                         !.context = assemble(fetched.all_messages,
                                              fetched.summary,
                                              MAX_TOKEN_THRESHOLD)]]
    /\ UNCHANGED <<registry, MAX_TOKEN_THRESHOLD, asm_vars, persistence, store_vars, env>>

\* _fetch_context: one of its two store reads fails
FetchContextFail(p, err) ==
    /\ runner[p].context_task = "pending"
    /\ ~runner[p].fetch_skipped
    /\ env.faults > 0
    /\ env' = [env EXCEPT !.faults = @ - 1]
    /\ runner' = [runner EXCEPT ![p] =
           [@ EXCEPT !.context_task = err]]
    /\ UNCHANGED <<registry, MAX_TOKEN_THRESHOLD, asm_vars, persistence, store_vars>>

\* _fetch_user_or_session: the gathered reads of the user and the session
FetchUserOrSession(p) ==
    /\ runner[p].session_task = "pending"
    /\ LET r == runner[p]
           found ==
               IF r.session_id = "none" \/ ~user_row THEN None
               ELSE session_row
       IN  runner' = [runner EXCEPT ![p] =
               IF ~user_row
               THEN [r EXCEPT !.user = FALSE, !.session = found,
                              !.new_user = TRUE, !.new_chat = TRUE,
                              !.session_task = "create_with_user"]
               ELSE IF found = None
               THEN [r EXCEPT !.user = TRUE, !.session = found,
                              !.new_chat = TRUE,
                              !.session_task = "create_for_existing_user"]
               ELSE [r EXCEPT !.user = TRUE, !.session = found,
                              !.session_task = "done"]]
    /\ UNCHANGED <<registry, MAX_TOKEN_THRESHOLD, asm_vars, persistence, store_vars, env>>

\* _fetch_user_or_session: a read of the user or of the session fails
FetchUserOrSessionFail(p, err) ==
    /\ runner[p].session_task = "pending"
    /\ env.faults > 0
    /\ env' = [env EXCEPT !.faults = @ - 1]
    /\ runner' = [runner EXCEPT ![p] = [@ EXCEPT !.session_task = err]]
    /\ UNCHANGED <<registry, MAX_TOKEN_THRESHOLD, asm_vars, persistence, store_vars>>

\* Session.create_with_user / create_for_existing_user: needs a session id,
\* and the rows it inserts must not exist yet
CreateSession(p) ==
    /\ runner[p].session_task \in {"create_with_user", "create_for_existing_user"}
    /\ LET r == runner[p]
           ok == /\ r.session_id # "none"
                 /\ session_row = None
                 /\ (r.session_task = "create_with_user" => ~user_row)
       IN  IF ok
           THEN /\ user_row' = TRUE
                /\ session_row' = [latest_turn_number |-> 0]
                /\ runner' = [runner EXCEPT ![p] =
                       [r EXCEPT !.session = [latest_turn_number |-> 0],
                                 !.session_task = "done"]]
           ELSE /\ runner' = [runner EXCEPT ![p] =
                       [r EXCEPT !.session_task = "SessionCreationError"]]
                /\ UNCHANGED <<user_row, session_row>>
    /\ UNCHANGED <<registry, MAX_TOKEN_THRESHOLD, asm_vars, persistence, messages, summaries, env>>

TaskFailed(t) == t \notin {"none", "pending", "done", "cancelled",
                           "create_with_user", "create_for_existing_user"}

\* both gathered tasks returned: turn_number = latest_turn_number + 1, the
\* counters of the assembler, and on to the first model call
ContextJoin(p) ==
    /\ runner[p].pc = "context"
    /\ runner[p].context_task = "done"
    /\ runner[p].session_task = "done"
    /\ LET r == runner[p]
           c == r.context
           st1 == IF r.session # None
                  THEN [r.state EXCEPT
                          !.turn_number = r.session.latest_turn_number + 1]
                  ELSE r.state
           st2 == IF c.updates_state
                  THEN [st1 EXCEPT
                          !.turns_after_last_summary = c.turns_after_last_summary,
                          !.total_token_after_last_summary =
                              c.total_token_after_last_summary,
                          !.active_summary = c.summary]
                  ELSE st1
       IN  runner' = [runner EXCEPT ![p] =
               [r EXCEPT !.pc = "generating", !.state = st2,
                         !.summary = c.summary,
                         !.invocations = 1,
                         !.engine = Append(@, "GENERATING")]]
    /\ UNCHANGED <<registry, MAX_TOKEN_THRESHOLD, asm_vars, persistence, store_vars, env>>

\* the engine state an exception leads to: the fallback handler, or none
\* when the exception is re-raised
failure_path(err) ==
    IF handler_of(err) = "fallback" THEN <<"FALLBACK">> ELSE <<>>

\* gather raises the first exception of its tasks; the other task is not
\* cancelled and keeps running.  _handle_query re-raises the identity
\* errors and takes every other error to its fallback handler.
ContextRaise(p) ==
    /\ runner[p].pc = "context"
    /\ \E err \in {runner[p].context_task, runner[p].session_task} :
           /\ TaskFailed(err)
           /\ runner' = [runner EXCEPT ![p] =
                  [@ EXCEPT !.error = err,
                            !.pc = handler_of(err),
                            !.engine = @ \o failure_path(err)]]
    /\ UNCHANGED <<registry, MAX_TOKEN_THRESHOLD, asm_vars, persistence, store_vars, env>>

\* ------------------------------------------------------------------------
\* _handle_query: the tool-call loop
\* ------------------------------------------------------------------------
\* the summary the provider returns for this turn: it covers the previous
\* conversation, everything but the current turn
GeneratedSummary(p) ==
    [origin |-> RunId(p), iteration |-> runner[p].invocations,
     end_turn_number |-> runner[p].state.turn_number - 1]

\* QueryResult(...)
QueryResult(msgs, summary, fallback, regenerated_summary) ==
    [messages |-> msgs, summary |-> summary, fallback |-> fallback,
     regenerated_summary |-> regenerated_summary]

\* a plausible slip: the queue is given a capacity of one event
queue_full_maxsize_one(queue, pulled) == Len(queue) - pulled >= 1

\* queue = asyncio.Queue(): no maxsize, so the queue is never full and
\* put never waits
queue_full(queue, pulled) == FALSE

\* await queue.put(event) goes through at once unless the queue is full
can_put(r) ==
    via_run_stream(r.mode) => ~queue_full(r.queue, r.pulled)

\* generate_response streams one more chunk into ai_message (and to the
\* callback of a streaming run)
StreamChunk(p) ==
    /\ runner[p].pc = "generating"
    /\ runner[p].chunks < MaxChunks
    /\ can_put(runner[p])
    /\ runner' = [runner EXCEPT ![p] =
           [@ EXCEPT !.chunks = @ + 1,
                     !.queue = IF stream_enabled(runner[p].mode)
                               THEN Append(@, "delta") ELSE @]]
    /\ UNCHANGED <<registry, MAX_TOKEN_THRESHOLD, asm_vars, persistence, store_vars, env>>

\* step after an iteration that asked for a tool call
step_after_tool_call(step) == step + 1

\* a plausible slip: the turn is marked complete whatever the model asked
turn_completed_always(tool_call) == TRUE

\* if tool_call: conversation_history.append(ai_message)
\* else: turn_completed = True
turn_completed(tool_call) == ~tool_call

\* a plausible slip: the context is assembled again on every iteration
needs_context_always(tool_call) == TRUE

\* the top of the loop, if not tool_call: the context is assembled only
\* when the iteration before did not ask for a tool call
needs_context(tool_call) == ~tool_call

\* a plausible slip: a summary of an earlier iteration is never replaced
capture_summary_keeping_first(new_summary, returned_summary) ==
    IF new_summary # None THEN new_summary ELSE returned_summary

\* if returned_summary is not None: new_summary = returned_summary
capture_summary(new_summary, returned_summary) ==
    IF returned_summary # None THEN returned_summary ELSE new_summary

\* a plausible slip: the ceiling is compared one step late
step_limit_exceeded_late(step) == step > MAX_STEPS + 1

\* the step ceiling: step > MAX_STEPS
step_limit_exceeded(step) == step > MAX_STEPS

\* MaxStepsReachedError(current_step=state.step, max_steps=MAX_STEPS)
MaxStepsReachedError(current_step, max_steps) ==
    [current_step |-> current_step, max_steps |-> max_steps]

\* one iteration: the gathered model call and summary call return
\* (tool_call, returned_summary); a tool call appends the AI message and
\* continues the loop with the next model call unless the step ceiling is
\* passed, no tool call completes the turn
Generate(p, tool_call, returns_summary) ==
    /\ runner[p].pc = "generating"
    /\ tool_call => env.tool_calls > 0
    /\ env' = IF tool_call THEN [env EXCEPT !.tool_calls = @ - 1] ELSE env
    /\ LET r == runner[p]
           returned_summary == IF returns_summary THEN GeneratedSummary(p)
                               ELSE None
           new_summary == capture_summary(r.new_summary, returned_summary)
           entered == IF tool_call THEN "TOOL_CONTINUE" ELSE "TURN_COMPLETE"
           r1 == [r EXCEPT !.new_summary = new_summary,
                           !.appended = IF tool_call THEN @ + 1 ELSE @,
                           !.returned_in = IF returns_summary
                                           THEN r.invocations ELSE @]
           step == step_after_tool_call(r.state.step)
       IN  runner' = [runner EXCEPT ![p] =
               IF turn_completed(tool_call)
               THEN [r1 EXCEPT !.pc = "persist",
                               !.engine = @ \o <<entered, "DONE">>,
                               !.result = QueryResult(
                                   <<user_query_message, ai_message(r.chunks)>>,
                                   IF new_summary # None THEN new_summary
                                   ELSE r.summary,
                                   FALSE, new_summary # None)]
               ELSE IF step_limit_exceeded(step)
               THEN [r1 EXCEPT !.state.step = step,
                               !.error = "MaxStepsReachedError",
                               !.step_error =
                                   MaxStepsReachedError(step, MAX_STEPS),
                               !.engine = @ \o <<entered>>
                                   \o failure_path("MaxStepsReachedError"),
                               !.pc = handler_of("MaxStepsReachedError")]
               ELSE IF needs_context(tool_call)
               THEN [r1 EXCEPT !.state.step = step,
                               !.pc = "context",
                               !.context_task = "pending",
                               !.session_task = "pending",
                               !.fetch_skipped =
                                   (r.new_chat \/ r.session_id = "none"),
                               !.assembled = @ + 1,
                               !.engine = @ \o <<entered, "AWAITING_CONTEXT">>]
               ELSE [r1 EXCEPT !.state.step = step,
                               !.invocations = @ + 1,
                               !.engine = @ \o <<entered, "GENERATING">>]]
    /\ UNCHANGED <<registry, MAX_TOKEN_THRESHOLD, asm_vars, persistence, store_vars>>

\* asyncio.gather without return_exceptions: the first exception is raised
\* to the awaiting coroutine at once; the other awaitable is not cancelled
\* and, unless it had settled already, keeps running
gather_leaves_running(failed, other_settled) ==
    IF other_settled THEN "none"
    ELSE IF failed = "response" THEN "summary" ELSE "response"

\* the model call (failed = "response") or the summary call (failed =
\* "summary") raises
GenerateFail(p, failed, other_settled) ==
    /\ runner[p].pc = "generating"
    /\ env.faults > 0
    /\ env' = [env EXCEPT !.faults = @ - 1]
    /\ runner' = [runner EXCEPT ![p] =
           [@ EXCEPT !.error = "ProviderError",
                     !.pc = handler_of("ProviderError"),
                     !.engine = @ \o failure_path("ProviderError"),
                     !.dangling = gather_leaves_running(failed, other_settled)]]
    /\ UNCHANGED <<registry, MAX_TOKEN_THRESHOLD, asm_vars, persistence, store_vars>>

\* the call that gather left running settles; nobody awaits its result
DanglingSettles(p) ==
    /\ runner[p].dangling # "none"
    /\ runner' = [runner EXCEPT ![p] = [@ EXCEPT !.dangling = "none"]]
    /\ UNCHANGED <<registry, MAX_TOKEN_THRESHOLD, asm_vars, persistence, store_vars, env>>

\* a model call that gather left running still streams to the callback
DanglingStream(p) ==
    /\ runner[p].dangling = "response"
    /\ stream_enabled(runner[p].mode)
    /\ runner[p].chunks < MaxChunks
    /\ can_put(runner[p])
    /\ runner' = [runner EXCEPT ![p] =
           [@ EXCEPT !.chunks = @ + 1, !.queue = Append(@, "delta")]]
    /\ UNCHANGED <<registry, MAX_TOKEN_THRESHOLD, asm_vars, persistence, store_vars, env>>

\* a plausible slip: the cancelled turn carries the summary an earlier
\* iteration returned, as the normal return does
Cancel_with_new_summary(p) ==
    /\ runner[p].pc = "generating"
    /\ runner' = [runner EXCEPT ![p] =
           [@ EXCEPT !.cancelled = TRUE,
                     !.pc = "persist",
                     !.engine = Append(@, "CANCELLED"),
                     !.result = QueryResult(
                         <<user_query_message, ai_message(runner[p].chunks)>>,
                         IF runner[p].new_summary # None
                         THEN runner[p].new_summary ELSE runner[p].summary,
                         FALSE, runner[p].new_summary # None)]]
    /\ UNCHANGED <<registry, MAX_TOKEN_THRESHOLD, asm_vars, persistence, store_vars, env>>

\* a plausible slip: the partial content is discarded on cancellation
Cancel_discarding_partial(p) ==
    /\ runner[p].pc = "generating"
    /\ runner' = [runner EXCEPT ![p] =
           [@ EXCEPT !.cancelled = TRUE,
                     !.pc = "persist",
                     !.engine = Append(@, "CANCELLED"),
                     !.result = QueryResult(
                         <<user_query_message, ai_message(0)>>,
                         runner[p].summary, FALSE, FALSE)]]
    /\ UNCHANGED <<registry, MAX_TOKEN_THRESHOLD, asm_vars, persistence, store_vars, env>>

\* except asyncio.CancelledError: the task is cancelled while it awaits the
\* model; the partial ai_message and the pre-existing summary are returned
Cancel(p) ==
    /\ runner[p].pc = "generating"
    /\ runner' = [runner EXCEPT ![p] =
           [@ EXCEPT !.cancelled = TRUE,
                     !.pc = "persist",
                     !.engine = Append(@, "CANCELLED"),
                     !.result = QueryResult(
                         <<user_query_message, ai_message(runner[p].chunks)>>,
                         runner[p].summary, FALSE, FALSE)]]
    /\ UNCHANGED <<registry, MAX_TOKEN_THRESHOLD, asm_vars, persistence, store_vars, env>>

\* a plausible slip: the store is not asked when no summary is in memory
fallback_summary_in_memory_only(summary, session, rows) == summary

\* get_latest_summary_for_fallback
get_latest_summary_for_fallback(session, rows) ==
    IF session = None THEN None ELSE get_latest_summary(rows)

\* the summary the fallback carries: the one in memory, else (with a
\* session) the latest persisted one
fallback_summary(summary, session, rows) ==
    IF summary = None /\ session # None
    THEN get_latest_summary_for_fallback(session, rows)
    ELSE summary

\* a plausible slip: the fallback text is not streamed to the callback
Fallback_without_streaming(p) ==
    /\ runner[p].pc = "fallback"
    /\ LET r == runner[p]
           fallback_messages == create_fallback_messages(user_query_message)
       IN  runner' = [runner EXCEPT ![p] =
               [r EXCEPT !.pc = "persist",
                         !.result = QueryResult(
                             fallback_messages,
                             fallback_summary(r.summary, r.session, summaries),
                             TRUE, FALSE)]]
    /\ UNCHANGED <<registry, MAX_TOKEN_THRESHOLD, asm_vars, persistence, store_vars, env>>

\* except Exception: fallback messages, streamed to the callback if there
\* is one, and the best summary available
Fallback(p) ==
    /\ runner[p].pc = "fallback"
    /\ can_put(runner[p])
    /\ LET r == runner[p]
           fallback_messages == create_fallback_messages(user_query_message)
       IN  runner' = [runner EXCEPT ![p] =
               [r EXCEPT !.pc = "persist",
                         !.queue = IF stream_enabled(r.mode)
                                   THEN Append(@, "fallback_text") ELSE @,
                         !.result = QueryResult(
                             fallback_messages,
                             fallback_summary(r.summary, r.session, summaries),
                             TRUE, FALSE)]]
    /\ UNCHANGED <<registry, MAX_TOKEN_THRESHOLD, asm_vars, persistence, store_vars, env>>

\* ------------------------------------------------------------------------
\* update_user_session (shielded) and Session.insert_messages
\* ------------------------------------------------------------------------
\* Summary.create_with_session_id: the row made from a generated summary;
\* the store gives it its id
create_with_session_id(summary) ==
    [id |-> summary.origin, end_turn_number |-> summary.end_turn_number]

\* a plausible slip: the backlink of an unsaved summary is the id it would get
previous_summary_id_of_unsaved(previous_summary) ==
    IF previous_summary = None THEN None
    ELSE IF "id" \in DOMAIN previous_summary THEN previous_summary.id
    ELSE previous_summary.origin

\* getattr(previous_summary, "id", None): a summary row has an id, a
\* generated summary that was not saved has none
previous_summary_id(previous_summary) ==
    IF previous_summary = None THEN None
    ELSE IF "id" \in DOMAIN previous_summary THEN previous_summary.id
    ELSE None

\* the rows insert_messages builds from the DTOs of a turn
message_rows(p, msgs, turn_number, previous_summary) ==
    [i \in DOMAIN msgs |->
        [turn_number |-> turn_number,
         token_count |-> msgs[i].chunks,
         kind |-> msgs[i].kind, chunks |-> msgs[i].chunks,
         error |-> msgs[i].error,
         run |-> RunId(p),
         previous_summary |-> previous_summary_id(previous_summary)]]

\* a plausible slip: the turn number is advanced although no row is written
insert_messages_rows_dropped(rows, session, new_rows, turn_number) ==
    [messages |-> rows,
     session |-> [session EXCEPT !.latest_turn_number = turn_number]]

\* a plausible slip: the rows are written but the session row is left alone
insert_messages_turn_not_advanced(rows, session, new_rows, turn_number) ==
    [messages |-> rows \o new_rows, session |-> session]

\* insert_messages: one transaction adds the rows and sets the session's
\* latest_turn_number to the turn number it was given
insert_messages(rows, session, new_rows, turn_number) ==
    [messages |-> rows \o new_rows,
     session |-> [session EXCEPT !.latest_turn_number = turn_number]]

\* a plausible slip: the messages it was given are kept after a failed write
returned_messages_as_given(r) == r.result.messages

\* the messages update_user_session returns: the ones it was given, or the
\* fallback pair it built after a failed write
returned_messages(r) ==
    IF r.insert_failed
    THEN create_fallback_messages(r.result.messages[1])
    ELSE r.result.messages

\* a plausible slip: the cancellation is handled by the clause for the other
\* exceptions
run_chat_events_cancel_as_error(kind) ==
    <<IF kind = "returned" THEN "data-session" ELSE "error", "end">>

\* run_chat: the terminal event of the outcome of _run_with_optional_stream
\* (it returned, it raised CancelledError, it raised something else), then
\* the end-of-stream sentinel of the finally clause
run_chat_events(kind) ==
    <<CASE kind = "returned" -> "data-session"
        [] kind = "cancelled" -> "cancelled"
        [] OTHER -> "error",
      "end">>

\* run_chat: what the result future is resolved with
run_chat_future(kind, error) ==
    CASE kind = "returned" -> "result"
      [] kind = "cancelled" -> "CancelledError"
      [] OTHER -> error

\* _run_with_optional_stream is left (events: what it still put on the
\* queue before); run_chat puts the terminal event and the sentinel and
\* resolves the future
run_chat(r, kind, error, events) ==
    [r EXCEPT
        !.outcome = [kind |-> kind, error |-> error,
                     messages |-> IF kind = "returned" THEN returned_messages(r)
                                  ELSE <<>>],
        !.future = IF via_run_stream(r.mode)
                   THEN run_chat_future(kind, error)
                   ELSE @,
        !.queue = IF via_run_stream(r.mode)
                  THEN @ \o events \o run_chat_events(kind)
                  ELSE @]

\* nothing of the run is left running: its locals are dead, and so are
\* the Runner and its SessionManager unless the caller uses them again
Retire(r) ==
    LET dead == [r EXCEPT
                    !.pc = "done",
                    !.context = None, !.context_task = "none",
                    !.fetch_skipped = FALSE, !.summary = None,
                    !.new_summary = None, !.chunks = 0,
                    !.persisted_summary = None, !.insert_failed = FALSE,
                    !.engine = <<>>, !.assembled = 0, !.invocations = 0,
                    !.fetched = <<>>, !.appended = 0, !.returned_in = 0,
                    !.step_error = None]
    IN  IF r.reused
        THEN dead
        ELSE [dead EXCEPT
                 !.state = State_initial, !.user = FALSE,
                 !.new_chat = FALSE, !.new_user = FALSE]

\* the run ends with the outcome of _run_with_optional_stream
Finished(r, kind, error, events) ==
    Retire(run_chat(r, kind, error, events))

\* a plausible slip: the persistence step is awaited without a shield, so
\* cancelling the run cancels the write
shield_cancelled_with_outer(r) == Retire(r)

\* asyncio.shield: when the awaiting run is cancelled, update_user_session
\* keeps running on its own
shield(r) == r

\* update_user_session has returned: to the run that awaits it, if it still
\* does
after_persist(r) ==
    IF r.detached THEN Retire(r) ELSE [r EXCEPT !.pc = "respond"]

\* update_user_session without a session: nothing is written
SkipPersist(p) ==
    /\ runner[p].pc = "persist"
    /\ runner[p].session = None
    /\ runner' = [runner EXCEPT ![p] = after_persist(@)]
    /\ UNCHANGED <<registry, MAX_TOKEN_THRESHOLD, asm_vars, persistence, store_vars, env>>

\* a plausible slip: the session's summary row is overwritten in place
CreateSummary_overwriting_latest(p) ==
    /\ runner[p].pc = "persist"
    /\ runner[p].session # None
    /\ runner[p].result.regenerated_summary
    /\ runner[p].result.summary # None
    /\ LET persisted_summary == create_with_session_id(runner[p].result.summary)
       IN  /\ summaries' = IF summaries = <<>> THEN <<persisted_summary>>
                           ELSE [summaries EXCEPT ![Len(summaries)] =
                                    persisted_summary]
           /\ runner' = [runner EXCEPT ![p] =
                  [@ EXCEPT !.pc = "insert_messages",
                            !.persisted_summary = persisted_summary]]
    /\ UNCHANGED <<registry, MAX_TOKEN_THRESHOLD, asm_vars, persistence, user_row, session_row, messages, env>>

\* update_user_session: a regenerated summary is created first
CreateSummary(p) ==
    /\ runner[p].pc = "persist"
    /\ runner[p].session # None
    /\ runner[p].result.regenerated_summary
    /\ runner[p].result.summary # None
    /\ LET persisted_summary == create_with_session_id(runner[p].result.summary)
       IN  /\ summaries' = Append(summaries, persisted_summary)
           /\ runner' = [runner EXCEPT ![p] =
                  [@ EXCEPT !.pc = "insert_messages",
                            !.persisted_summary = persisted_summary]]
    /\ UNCHANGED <<registry, MAX_TOKEN_THRESHOLD, asm_vars, persistence, user_row, session_row, messages, env>>

\* except Exception in update_user_session: the fallback pair replaces the
\* messages and is streamed to the callback, if there is one
insert_failed(r) ==
    [r EXCEPT !.pc = "fallback_insert", !.insert_failed = TRUE,
              !.queue = IF stream_enabled(r.mode)
                        THEN Append(@, "fallback_text") ELSE @]

\* update_user_session: create_with_session_id raises
CreateSummaryFail(p) ==
    /\ runner[p].pc = "persist"
    /\ runner[p].session # None
    /\ runner[p].result.regenerated_summary
    /\ runner[p].result.summary # None
    /\ can_put(runner[p])
    /\ env.faults > 0
    /\ env' = [env EXCEPT !.faults = @ - 1]
    /\ runner' = [runner EXCEPT ![p] = insert_failed(@)]
    /\ UNCHANGED <<registry, MAX_TOKEN_THRESHOLD, asm_vars, persistence, store_vars>>

\* update_user_session is about to call insert_messages in its try block
at_insert_messages(r) ==
    \/ r.pc = "insert_messages"
    \/ /\ r.pc = "persist"
       /\ r.session # None
       /\ ~(r.result.regenerated_summary /\ r.result.summary # None)

\* update_user_session: the messages of the turn are inserted under
\* state.turn_number, with the persisted summary as their previous summary
InsertMessages(p) ==
    /\ at_insert_messages(runner[p])
    /\ session_row # None
    /\ LET r == runner[p]
           turn_number == r.state.turn_number
           persisted_summary == IF r.pc = "insert_messages"
                                THEN r.persisted_summary
                                ELSE r.result.summary
           w == insert_messages(
                    messages, session_row,
                    message_rows(p, r.result.messages, turn_number,
                                 persisted_summary),
                    turn_number)
       IN  /\ messages' = w.messages
           /\ session_row' = w.session
           /\ runner' = [runner EXCEPT ![p] = after_persist(r)]
    /\ UNCHANGED <<registry, MAX_TOKEN_THRESHOLD, asm_vars, persistence, user_row, summaries, env>>

\* update_user_session: insert_messages raises and its transaction is
\* rolled back
InsertMessagesFail(p) ==
    /\ at_insert_messages(runner[p])
    /\ can_put(runner[p])
    /\ env.faults > 0
    /\ env' = [env EXCEPT !.faults = @ - 1]
    /\ runner' = [runner EXCEPT ![p] = insert_failed(@)]
    /\ UNCHANGED <<registry, MAX_TOKEN_THRESHOLD, asm_vars, persistence, store_vars>>

\* update_user_session, except branch: the fallback pair is inserted with
\* the summary the caller passed as its previous summary
InsertFallback(p) ==
    /\ runner[p].pc = "fallback_insert"
    /\ session_row # None
    /\ LET r == runner[p]
           turn_number == r.state.turn_number
           w == insert_messages(
                    messages, session_row,
                    message_rows(p, returned_messages(r), turn_number,
                                 r.result.summary),
                    turn_number)
       IN  /\ messages' = w.messages
           /\ session_row' = w.session
           /\ runner' = [runner EXCEPT ![p] = after_persist(r)]
    /\ UNCHANGED <<registry, MAX_TOKEN_THRESHOLD, asm_vars, persistence, user_row, summaries, env>>

\* update_user_session, except branch: insert_messages raises again and
\* the error leaves update_user_session; nobody sees it if the run that
\* awaited it was cancelled meanwhile
InsertFallbackFail(p) ==
    /\ runner[p].pc = "fallback_insert"
    /\ can_put(runner[p])
    /\ env.faults > 0
    /\ env' = [env EXCEPT !.faults = @ - 1]
    /\ LET r == runner[p]
       IN  IF r.detached
           THEN /\ runner' = [runner EXCEPT ![p] = Retire(r)]
                /\ UNCHANGED registry
           ELSE /\ runner' = [runner EXCEPT ![p] =
                       Finished(r, "raised", "MessageCreationError", <<>>)]
                /\ registry' = registry_on_exit(registry, r, "raised")
    /\ UNCHANGED <<MAX_TOKEN_THRESHOLD, asm_vars, persistence, store_vars>>

\* ------------------------------------------------------------------------
\* _run_with_optional_stream / run / run_stream: the way out
\* ------------------------------------------------------------------------
\* a plausible slip: the finish event is sent by run_chat after the result
Respond_finish_after_result(p) ==
    /\ runner[p].pc = "respond"
    /\ can_put(runner[p])
    /\ LET r == runner[p]
           finish == IF stream_enabled(r.mode) THEN <<"finish">> ELSE <<>>
           kind == IF r.session = None THEN "raised" ELSE "returned"
       IN  /\ runner' = [runner EXCEPT ![p] =
                  IF r.session = None
                  THEN Finished(r, "raised", "AttributeError", finish)
                  ELSE [Finished(r, "returned", "", <<>>)
                           EXCEPT !.queue = @ \o finish]]
           /\ registry' = registry_on_exit(registry, r, kind)
    /\ UNCHANGED <<MAX_TOKEN_THRESHOLD, asm_vars, persistence, store_vars, env>>

\* after the persistence step: the finish event of a streaming run, then the
\* result dict, which reads session.id
Respond(p) ==
    /\ runner[p].pc = "respond"
    /\ can_put(runner[p])
    /\ LET r == runner[p]
           finish == IF stream_enabled(r.mode) THEN <<"finish">> ELSE <<>>
           kind == IF r.session = None THEN "raised" ELSE "returned"
       IN  /\ runner' = [runner EXCEPT ![p] =
                  IF r.session = None
                  THEN Finished(r, "raised", "AttributeError", finish)
                  ELSE Finished(r, "returned", "", finish)]
           /\ registry' = registry_on_exit(registry, r, kind)
    /\ UNCHANGED <<MAX_TOKEN_THRESHOLD, asm_vars, persistence, store_vars, env>>

\* an identity error leaves _handle_query and _run_with_optional_stream
Raise(p) ==
    /\ runner[p].pc = "raise"
    /\ can_put(runner[p])
    /\ runner' = [runner EXCEPT ![p] =
           Finished(runner[p], "raised", runner[p].error, <<>>)]
    /\ registry' = registry_on_exit(registry, runner[p], "raised")
    /\ UNCHANGED <<MAX_TOKEN_THRESHOLD, asm_vars, persistence, store_vars, env>>

\* ------------------------------------------------------------------------
\* Cancellation of the task of a run, at the point where it is suspended
\* ------------------------------------------------------------------------
\* while get_context_and_update_state awaits its gather: gather cancels the
\* two fetches, _handle_query catches the CancelledError and returns the
\* query and the still empty AI message
CancelInContext(p) ==
    /\ runner[p].pc = "context"
    /\ LET r == runner[p]
       IN  runner' = [runner EXCEPT ![p] =
               [r EXCEPT
                   !.cancelled = TRUE,
                   !.context_task = IF @ = "pending" THEN "cancelled" ELSE @,
                   !.session_task = IF @ \in {"pending", "create_with_user",
                                              "create_for_existing_user"}
                                    THEN "cancelled" ELSE @,
                   !.pc = "persist",
                   !.engine = Append(@, "CANCELLED"),
                   !.result = QueryResult(
                       <<user_query_message, ai_message(r.chunks)>>,
                       r.summary, FALSE, FALSE)]]
    /\ UNCHANGED <<registry, MAX_TOKEN_THRESHOLD, asm_vars, persistence, store_vars, env>>

\* while the fallback handler awaits get_latest_summary_for_fallback (after
\* it streamed the fallback text): the handler is outside the try block, so
\* the CancelledError leaves _handle_query and _run_with_optional_stream
CancelInFallback(p) ==
    /\ runner[p].pc = "fallback"
    /\ runner[p].summary = None
    /\ runner[p].session # None
    /\ can_put(runner[p])
    /\ LET r == runner[p]
           streamed == IF stream_enabled(r.mode) THEN <<"fallback_text">>
                       ELSE <<>>
       IN  /\ runner' = [runner EXCEPT ![p] =
                  Finished([r EXCEPT !.cancelled = TRUE],
                           "cancelled", "CancelledError", streamed)]
           /\ registry' = registry_on_exit(registry, r, "cancelled")
    /\ UNCHANGED <<MAX_TOKEN_THRESHOLD, asm_vars, persistence, store_vars, env>>

\* while _run_with_optional_stream awaits the shielded update_user_session:
\* the CancelledError leaves _run_with_optional_stream, the write goes on
CancelInPersist(p) ==
    /\ runner[p].pc \in {"persist", "insert_messages", "fallback_insert"}
    /\ ~runner[p].detached
    /\ can_put(runner[p])
    /\ LET r == runner[p]
       IN  /\ runner' = [runner EXCEPT ![p] =
                  shield([run_chat(r, "cancelled", "CancelledError", <<>>)
                             EXCEPT !.cancelled = TRUE, !.detached = TRUE])]
           /\ registry' = registry_on_exit(registry, r, "cancelled")
    /\ UNCHANGED <<MAX_TOKEN_THRESHOLD, asm_vars, persistence, store_vars, env>>

\* cancel_task(session_id): cancels the task registered under the session
\* id, if it has not finished; the task sees it where it is suspended
cancel_task(session_id) ==
    /\ registry[session_id] # None
    /\ LET p == registry[session_id].task
       IN  /\ registry[session_id] = RunId(p)
           /\ runner[p].pc # "done"
           /\ \/ CancelInContext(p)
              \/ Cancel(p)
              \/ CancelInFallback(p)
              \/ CancelInPersist(p)

\* ------------------------------------------------------------------------
\* run_stream: the consumer of event_generator
\* ------------------------------------------------------------------------
\* format_sse_event(event): "data: " + json.dumps(event) + two newlines
format_sse_event(event) == [data |-> event, json |-> TRUE]

\* format_sse_done(): "data: [DONE]" + two newlines
format_sse_done == [data |-> "[DONE]", json |-> FALSE]

\* event_generator: the next event is taken from the queue and yielded as
\* an SSE line; the sentinel ends the loop and the done marker follows
Pull(p) ==
    /\ runner[p].consumer = "pulling"
    /\ runner[p].pulled < Len(runner[p].queue)
    /\ LET r == runner[p]
           event == r.queue[r.pulled + 1]
       IN  runner' = [runner EXCEPT ![p] =
               IF event = "end"
               THEN [r EXCEPT !.pulled = @ + 1,
                              !.received = Append(@, format_sse_done),
                              !.consumer = "ended"]
               ELSE [r EXCEPT !.pulled = @ + 1,
                              !.received = Append(@, format_sse_event(event))]]
    /\ UNCHANGED <<registry, MAX_TOKEN_THRESHOLD, asm_vars, persistence, store_vars, env>>

\* the consumer stops pulling from event_generator (the client went away)
StopPulling(p) ==
    /\ runner[p].consumer = "pulling"
    /\ runner' = [runner EXCEPT ![p] = [@ EXCEPT !.consumer = "stopped"]]
    /\ UNCHANGED <<registry, MAX_TOKEN_THRESHOLD, asm_vars, persistence, store_vars, env>>

\* ------------------------------------------------------------------------
\* Persistence runtime: initialize_persistence / shutdown_persistence
\* ------------------------------------------------------------------------
\* PersistenceBackend
Backends == {"mongo", "postgres"}

\* the module state of runtime.py and the engine of PostgresDB before any
\* call, the callers of initialize_persistence, and the calls made so far;
\* initialised records the calls whose backend initialisation ran since
\* the last shutdown
NoPersistence ==
    [active_backend |-> "none", active_context |-> None, engine |-> None,
     initialised |-> {},
     calls |-> [p \in Procs |->
                   [pc |-> "idle", no |-> 0, backend |-> "postgres",
                    returned |-> None, error |-> ""]],
     init_calls |-> 0, shutdowns |-> 0]

\* get_active_backend()
get_active_backend(rt) == rt.active_backend

\* get_active_context()
get_active_context(rt) == rt.active_context

\* set_active_context(context): the first context is kept; a later one of
\* the same backend is dropped without a word, one of another backend
\* raises RuntimeError
set_active_context(rt, context) ==
    IF rt.active_context # None
    THEN [runtime |-> rt, raised |-> rt.active_backend # context.backend]
    ELSE [runtime |-> [rt EXCEPT !.active_backend = context.backend,
                                 !.active_context = context],
          raised |-> FALSE]

\* clear_active_context()
clear_active_context(rt) ==
    [rt EXCEPT !.active_backend = "none", !.active_context = None]

\* PostgresDB.init: a new engine and sessionmaker replace whatever
\* PostgresDB held, before the connection is tried
PostgresDB_init(rt, call) ==
    [rt EXCEPT !.engine = call, !.initialised = @ \cup {call}]

\* PostgresDB.close: the engine is disposed and forgotten
PostgresDB_close(rt) == [rt EXCEPT !.engine = None]

\* the context PostgresBackendAdapter.initialize returns to the call
PersistenceContext(backend, call) == [backend |-> backend, call |-> call]

\* initialize_persistence, up to its first await: with an active backend the
\* call returns the active context or raises for another backend; without
\* one it starts the adapter of the backend.  MongoBackendAdapter.initialize
\* has no parameter config, so initialize(config=...) raises TypeError.
InitializePersistence(p, backend) ==
    /\ persistence.calls[p].pc # "initializing"
    /\ persistence.init_calls < MaxInitCalls
    /\ LET call == [task |-> p, no |-> persistence.calls[p].no + 1]
           started == [persistence EXCEPT
                          !.init_calls = @ + 1,
                          !.calls[p] = [pc |-> "initializing", no |-> call.no,
                                        backend |-> backend,
                                        returned |-> None, error |-> ""]]
           active_backend == get_active_backend(persistence)
       IN  persistence' =
               IF active_backend # "none"
               THEN IF active_backend # backend
                    THEN [started EXCEPT !.calls[p].pc = "raised",
                                         !.calls[p].error = "RuntimeError"]
                    ELSE [started EXCEPT
                             !.calls[p].pc = "returned",
                             !.calls[p].returned = get_active_context(started)]
               ELSE IF backend = "mongo"
               THEN [started EXCEPT !.calls[p].pc = "raised",
                                    !.calls[p].error = "TypeError"]
               ELSE PostgresDB_init(started, call)
    /\ UNCHANGED <<MAX_TOKEN_THRESHOLD, asm_vars, store_vars, runner, registry, env>>

\* initialize_persistence, after PostgresBackendAdapter.initialize has
\* returned: set_active_context, then the call returns its own context
AdapterInitialized(p) ==
    /\ persistence.calls[p].pc = "initializing"
    /\ LET call == [task |-> p, no |-> persistence.calls[p].no]
           context == PersistenceContext(persistence.calls[p].backend, call)
           set == set_active_context(persistence, context)
       IN  persistence' =
               IF set.raised
               THEN [set.runtime EXCEPT !.calls[p].pc = "raised",
                                        !.calls[p].error = "RuntimeError"]
               ELSE [set.runtime EXCEPT !.calls[p].pc = "returned",
                                        !.calls[p].returned = context]
    /\ UNCHANGED <<MAX_TOKEN_THRESHOLD, asm_vars, store_vars, runner, registry, env>>

\* shutdown_persistence, while no call of initialize_persistence is under
\* way: nothing without an active backend, else the backend is closed and
\* the runtime state cleared; what callers got before belongs to the past
ShutdownPersistence ==
    /\ persistence.shutdowns < MaxShutdowns
    /\ \A p \in Procs : persistence.calls[p].pc # "initializing"
    /\ persistence' =
           IF get_active_backend(persistence) = "none"
           THEN [persistence EXCEPT !.shutdowns = @ + 1]
           ELSE [clear_active_context(PostgresDB_close(persistence)) EXCEPT
                    !.shutdowns = @ + 1,
                    !.initialised = {},
                    !.calls = [p \in Procs |->
                                  [@[p] EXCEPT !.pc = "idle",
                                               !.returned = None,
                                               !.error = ""]]]
    /\ UNCHANGED <<MAX_TOKEN_THRESHOLD, asm_vars, store_vars, runner, registry, env>>

\* ------------------------------------------------------------------------
\* The turn engine on one session
\* ------------------------------------------------------------------------
InitStore ==
    /\ MAX_TOKEN_THRESHOLD = MaxThreshold
    /\ asm_in = [all_messages |-> <<>>, summary |-> None]
    /\ asm_out = None
    /\ user_row = FALSE
    /\ session_row = None
    /\ messages = <<>>
    /\ summaries = <<>>
    /\ runner = [p \in Procs |-> NewRunner]
    /\ registry = [k \in RegistryKeys |-> None]
    /\ persistence = NoPersistence

\* one task runs its turns one after the other; the model may ask for tool
\* calls up to and beyond the step ceiling
Init ==
    /\ InitStore
    /\ env = [tasks |-> {"t1"}, modes |-> {"run", "run_stream"},
              session_ids |-> SessionIds,
              runs |-> MaxRuns, faults |-> MaxFaults,
              tool_calls |-> MAX_STEPS + 1,
              reuse |-> FALSE, max_turns |-> MAX_TURNS_TO_FETCH]

\* the tasks run turns on the session that overlap in time
InitConc ==
    /\ InitStore
    /\ env = [tasks |-> Procs, modes |-> {"run"}, session_ids |-> {"s1"},
              runs |-> MaxConcRuns, faults |-> MaxConcFaults,
              tool_calls |-> MaxConcToolCalls,
              reuse |-> FALSE, max_turns |-> MAX_TURNS_TO_FETCH]

Next ==
    \E p \in Procs :
        \/ \E mode \in Modes, sid \in SessionIds :
               Run(p, mode, sid)
        \/ FetchContext(p)
        \/ \E err \in {"MessageRetrievalError", "SummaryRetrievalError"} :
               FetchContextFail(p, err)
        \/ FetchUserOrSession(p)
        \/ \E err \in {"UserRetrievalError", "SessionRetrievalError"} :
               FetchUserOrSessionFail(p, err)
        \/ CreateSession(p)
        \/ ContextJoin(p)
        \/ ContextRaise(p)
        \/ StreamChunk(p)
        \/ \E tool_call \in BOOLEAN, returns_summary \in BOOLEAN :
               Generate(p, tool_call, returns_summary)
        \/ \E failed \in {"response", "summary"}, other_settled \in BOOLEAN :
               GenerateFail(p, failed, other_settled)
        \/ DanglingSettles(p)
        \/ Cancel(p)
        \/ Fallback(p)
        \/ SkipPersist(p)
        \/ CreateSummary(p)
        \/ InsertMessages(p)
        \/ Respond(p)
        \/ Raise(p)

Spec == Init /\ [][Next]_vars

SpecConc == InitConc /\ [][Next]_vars

\* overlapping turns while every store call and every provider call succeeds
InitOverlap ==
    /\ InitStore
    /\ env = [tasks |-> Procs, modes |-> {"run"}, session_ids |-> {"s1"},
              runs |-> MaxConcRuns, faults |-> 0,
              tool_calls |-> MaxConcToolCalls,
              reuse |-> FALSE, max_turns |-> MAX_TURNS_TO_FETCH]

NextOverlap ==
    \E p \in Procs :
        \/ \E mode \in Modes, sid \in SessionIds :
               Run(p, mode, sid)
        \/ FetchContext(p)
        \/ FetchUserOrSession(p)
        \/ CreateSession(p)
        \/ ContextJoin(p)
        \/ ContextRaise(p)
        \/ StreamChunk(p)
        \/ \E tool_call \in BOOLEAN, returns_summary \in BOOLEAN :
               Generate(p, tool_call, returns_summary)
        \/ Cancel(p)
        \/ Fallback(p)
        \/ SkipPersist(p)
        \/ CreateSummary(p)
        \/ InsertMessages(p)
        \/ Respond(p)

SpecOverlap == InitOverlap /\ [][NextOverlap]_vars

\* streaming turns of two tasks on the one session id, overlapping in time
InitRegistry ==
    /\ InitStore
    /\ env = [tasks |-> Procs, modes |-> {"run_stream"}, session_ids |-> {"s1"},
              runs |-> MaxRegistryRuns, faults |-> 0,
              tool_calls |-> 0,
              reuse |-> FALSE, max_turns |-> MAX_TURNS_TO_FETCH]

NextRegistry ==
    \E p \in Procs :
        \/ \E mode \in Modes, sid \in SessionIds :
               Run(p, mode, sid)
        \/ FetchContext(p)
        \/ FetchUserOrSession(p)
        \/ CreateSession(p)
        \/ ContextJoin(p)
        \/ ContextRaise(p)
        \/ StreamChunk(p)
        \/ \E tool_call \in BOOLEAN, returns_summary \in BOOLEAN :
               Generate(p, tool_call, returns_summary)
        \/ Fallback(p)
        \/ SkipPersist(p)
        \/ CreateSummary(p)
        \/ InsertMessages(p)
        \/ Respond(p)

SpecRegistry == InitRegistry /\ [][NextRegistry]_vars

\* ------------------------------------------------------------------------
\* Streaming turns of one task: cancellation by session id, failing store
\* and provider calls, and the consumer of the event sequence
\* ------------------------------------------------------------------------
InitStream ==
    /\ InitStore
    /\ env = [tasks |-> {"t1"}, modes |-> {"run_stream"}, session_ids |-> {"s1"},
              runs |-> MaxStreamRuns, faults |-> MaxStreamFaults,
              tool_calls |-> MaxStreamToolCalls,
              reuse |-> FALSE, max_turns |-> MAX_TURNS_TO_FETCH]

\* the steps of a run and of the calls it started, when nothing fails and
\* nobody cancels
RunStep(p) ==
    \/ FetchContext(p)
    \/ FetchUserOrSession(p)
    \/ CreateSession(p)
    \/ ContextJoin(p)
    \/ ContextRaise(p)
    \/ StreamChunk(p)
    \/ \E tool_call \in BOOLEAN, returns_summary \in BOOLEAN :
           Generate(p, tool_call, returns_summary)
    \/ DanglingSettles(p)
    \/ DanglingStream(p)
    \/ Fallback(p)
    \/ SkipPersist(p)
    \/ CreateSummary(p)
    \/ InsertMessages(p)
    \/ InsertFallback(p)
    \/ Respond(p)
    \/ Raise(p)

\* a store call or a provider call fails
FaultStep(p) ==
    \/ \E err \in {"MessageRetrievalError", "SummaryRetrievalError"} :
           FetchContextFail(p, err)
    \/ \E err \in {"UserRetrievalError", "SessionRetrievalError"} :
           FetchUserOrSessionFail(p, err)
    \/ \E failed \in {"response", "summary"}, other_settled \in BOOLEAN :
           GenerateFail(p, failed, other_settled)
    \/ CreateSummaryFail(p)
    \/ InsertMessagesFail(p)
    \/ InsertFallbackFail(p)

NextStream ==
    \/ \E p \in Procs :
           \/ \E mode \in Modes, sid \in SessionIds :
                  Run(p, mode, sid)
           \/ RunStep(p)
           \/ FaultStep(p)
           \/ Pull(p)
           \/ StopPulling(p)
    \/ \E session_id \in RegistryKeys : cancel_task(session_id)

SpecStream == InitStream /\ [][NextStream]_vars

\* the event loop runs every task that is ready, and the store and the
\* provider answer every call
SpecStreamFair ==
    InitStream /\ [][NextStream]_vars /\ WF_vars(\E p \in Procs : RunStep(p))

\* ------------------------------------------------------------------------
\* The turn engine on its own: one task hands its queries to run one after
\* the other, on a new Runner each time or on the Runner it used before;
\* the model may ask for tool calls beyond the step ceiling
\* ------------------------------------------------------------------------
InitEngine ==
    /\ InitStore
    /\ \E reuse \in BOOLEAN :
           env = [tasks |-> {"t1"}, modes |-> {"run"}, session_ids |-> {"s1"},
                  runs |-> MaxEngineRuns, faults |-> MaxEngineFaults,
                  tool_calls |-> MaxEngineToolCalls,
                  reuse |-> reuse, max_turns |-> MAX_TURNS_TO_FETCH]

\* the steps of a run when nothing fails and nobody cancels
EngineStep(p) ==
    \/ FetchContext(p)
    \/ FetchUserOrSession(p)
    \/ CreateSession(p)
    \/ ContextJoin(p)
    \/ ContextRaise(p)
    \/ StreamChunk(p)
    \/ \E tool_call \in BOOLEAN, returns_summary \in BOOLEAN :
           Generate(p, tool_call, returns_summary)
    \/ DanglingSettles(p)
    \/ Fallback(p)
    \/ SkipPersist(p)
    \/ CreateSummary(p)
    \/ InsertMessages(p)
    \/ InsertFallback(p)
    \/ Respond(p)
    \/ Raise(p)

\* a store call or a provider call fails
EngineFault(p) ==
    \/ \E err \in {"MessageRetrievalError", "SummaryRetrievalError"} :
           FetchContextFail(p, err)
    \/ \E err \in {"UserRetrievalError", "SessionRetrievalError"} :
           FetchUserOrSessionFail(p, err)
    \/ \E failed \in {"response", "summary"}, other_settled \in BOOLEAN :
           GenerateFail(p, failed, other_settled)
    \/ CreateSummaryFail(p)
    \/ InsertMessagesFail(p)

\* the caller cancels the task that awaits run while _handle_query is
\* suspended in its try block
EngineCancel(p) ==
    \/ CancelInContext(p)
    \/ Cancel(p)

NextEngine ==
    \E p \in Procs :
        \/ \E mode \in Modes, sid \in SessionIds :
               Run(p, mode, sid)
        \/ \E mode \in Modes : RunAgain(p, mode)
        \/ EngineStep(p)
        \/ EngineFault(p)
        \/ EngineCancel(p)

SpecEngine == InitEngine /\ [][NextEngine]_vars

\* the event loop runs every task that is ready, and the store and the
\* provider answer every call
SpecEngineFair ==
    InitEngine /\ [][NextEngine]_vars /\ WF_vars(\E p \in Procs : EngineStep(p))

\* ------------------------------------------------------------------------
\* Turns of one task, one after the other, each on a new Runner, while the
\* environment sets MAX_TURNS_TO_FETCH below the number of turns stored;
\* nothing fails and nobody cancels
\* ------------------------------------------------------------------------
InitFetch ==
    /\ InitStore
    /\ env = [tasks |-> {"t1"}, modes |-> {"run"}, session_ids |-> {"s1"},
              runs |-> MaxFetchRuns, faults |-> 0, tool_calls |-> 0,
              reuse |-> FALSE, max_turns |-> MaxTurnsToFetch]

NextFetch ==
    \E p \in Procs :
        \/ \E mode \in Modes, sid \in SessionIds :
               Run(p, mode, sid)
        \/ FetchContext(p)
        \/ FetchUserOrSession(p)
        \/ CreateSession(p)
        \/ ContextJoin(p)
        \/ StreamChunk(p)
        \/ \E tool_call \in BOOLEAN, returns_summary \in BOOLEAN :
               Generate(p, tool_call, returns_summary)
        \/ CreateSummary(p)
        \/ InsertMessages(p)
        \/ Respond(p)

SpecFetch == InitFetch /\ [][NextFetch]_vars

\* ------------------------------------------------------------------------
\* Runs of every kind, overlapping in time: run, run_stream with and without
\* options.stream, with the session id and without one; a run is cancelled
\* through the registry or by the caller that awaits it
\* ------------------------------------------------------------------------
InitMixed ==
    /\ InitStore
    /\ env = [tasks |-> Procs, modes |-> Modes, session_ids |-> SessionIds,
              runs |-> MaxMixedRuns, faults |-> MaxMixedFaults,
              tool_calls |-> 0,
              reuse |-> FALSE, max_turns |-> MAX_TURNS_TO_FETCH]

\* the caller cancels the task of a run, wherever it is suspended
CallerCancel(p) ==
    \/ CancelInContext(p)
    \/ Cancel(p)
    \/ CancelInFallback(p)
    \/ CancelInPersist(p)

\* the steps of a run whose provider calls succeed and stream nothing
MixedStep(p) ==
    \/ FetchContext(p)
    \/ FetchUserOrSession(p)
    \/ CreateSession(p)
    \/ ContextJoin(p)
    \/ ContextRaise(p)
    \/ \E tool_call \in BOOLEAN, returns_summary \in BOOLEAN :
           Generate(p, tool_call, returns_summary)
    \/ Fallback(p)
    \/ SkipPersist(p)
    \/ CreateSummary(p)
    \/ InsertMessages(p)
    \/ InsertFallback(p)
    \/ Respond(p)
    \/ Raise(p)

\* a read of the context or a write of the turn fails
MixedFault(p) ==
    \/ \E err \in {"MessageRetrievalError", "SummaryRetrievalError"} :
           FetchContextFail(p, err)
    \/ InsertMessagesFail(p)
    \/ InsertFallbackFail(p)

NextMixed ==
    \/ \E p \in Procs :
           \/ \E mode \in Modes, sid \in SessionIds : Run(p, mode, sid)
           \/ MixedStep(p)
           \/ MixedFault(p)
           \/ CallerCancel(p)
    \/ \E session_id \in RegistryKeys : cancel_task(session_id)

SpecMixed == InitMixed /\ [][NextMixed]_vars

\* ------------------------------------------------------------------------
\* The tasks of the process call initialize_persistence, overlapping in
\* time, and shutdown_persistence
\* ------------------------------------------------------------------------
InitPersistence ==
    /\ InitStore
    /\ env = [tasks |-> Procs, modes |-> {}, session_ids |-> {},
              runs |-> 0, faults |-> 0, tool_calls |-> 0,
              reuse |-> FALSE, max_turns |-> MAX_TURNS_TO_FETCH]

NextPersistence ==
    \/ \E p \in Procs :
           \/ \E backend \in Backends : InitializePersistence(p, backend)
           \/ AdapterInitialized(p)
    \/ ShutdownPersistence

SpecPersistence == InitPersistence /\ [][NextPersistence]_vars

\* ------------------------------------------------------------------------
\* Assembler harness: every fetched list, summary and threshold in bounds
\* ------------------------------------------------------------------------
MessageShapes == [turn_number : 1..MaxTurn, token_count : 0..MaxTok]

FetchedLists ==
    UNION {[1..n -> MessageShapes] : n \in 0..MaxLen}

\* a fetched row: its shape plus its identity (position in creation order)
WithIds(shapes) ==
    [i \in DOMAIN shapes |->
        [id |-> i, turn_number |-> shapes[i].turn_number,
         token_count |-> shapes[i].token_count]]

SummaryInputs == {None} \cup [end_turn_number : 1..MaxTurn]

InitAsm ==
    /\ MAX_TOKEN_THRESHOLD \in 0..MaxThreshold
    /\ \E shapes \in FetchedLists, s \in SummaryInputs :
           asm_in = [all_messages |-> WithIds(shapes), summary |-> s]
    /\ asm_out = None
    /\ user_row = FALSE
    /\ session_row = None
    /\ messages = <<>>
    /\ summaries = <<>>
    /\ runner = [p \in Procs |-> NewRunner]
    /\ registry = [k \in RegistryKeys |-> None]
    /\ persistence = NoPersistence
    /\ env = [tasks |-> {}, modes |-> {}, session_ids |-> {},
              runs |-> 0, faults |-> 0, tool_calls |-> 0,
              reuse |-> FALSE, max_turns |-> MAX_TURNS_TO_FETCH]

Assemble ==
    /\ asm_out = None
    /\ asm_out' = assemble(asm_in.all_messages, asm_in.summary, MAX_TOKEN_THRESHOLD)
    /\ UNCHANGED <<registry, MAX_TOKEN_THRESHOLD, asm_in, persistence, store_vars, runner, env>>

NextAsm == Assemble

SpecAsm == InitAsm /\ [][NextAsm]_vars

\* ------------------------------------------------------------------------
\* Claims about the assembler
\* ------------------------------------------------------------------------
InSeq(m, s) == \E i \in DOMAIN s : s[i] = m

\* C1: the assembled window contains every fetched message whose
\* turn_number is greater than the active summary's end_turn_number
\* (greater than 0 without a summary), whatever those messages cost.
C1_TailAlwaysIncluded ==
    asm_out # None =>
        \A i \in DOMAIN asm_in.all_messages :
            asm_in.all_messages[i].turn_number > end_turn_number(asm_in.summary)
                => InSeq(asm_in.all_messages[i], asm_out.messages)

\* the tail alone is over the threshold, older messages exist and are left out
C1_Witness ==
    /\ asm_out # None
    /\ asm_in.summary # None
    /\ SumTokens(messages_after_summary(asm_in.all_messages, asm_in.summary))
           > MAX_TOKEN_THRESHOLD
    /\ Len(messages_after_summary(asm_in.all_messages, asm_in.summary)) >= 2
    /\ Len(asm_out.messages) < Len(asm_in.all_messages)

\* C2: the window's total token count is >= the threshold or equals the
\* total token count of all fetched messages.
C2_BudgetOrEverything ==
    asm_out # None =>
        \/ SumTokens(asm_out.messages) >= MAX_TOKEN_THRESHOLD
        \/ SumTokens(asm_out.messages) = SumTokens(asm_in.all_messages)

\* older messages were pulled until the threshold was met, and some were left
C2_Witness ==
    /\ asm_out # None
    /\ MAX_TOKEN_THRESHOLD > 0
    /\ SumTokens(messages_after_summary(asm_in.all_messages, asm_in.summary))
           < MAX_TOKEN_THRESHOLD
    /\ SumTokens(asm_out.messages) >= MAX_TOKEN_THRESHOLD
    /\ Len(asm_out.messages) < Len(asm_in.all_messages)
    /\ Len(asm_out.messages)
           > Len(messages_after_summary(asm_in.all_messages, asm_in.summary))

\* ------------------------------------------------------------------------
\* Claims about the turn engine and the store
\* ------------------------------------------------------------------------
LatestTurn == IF session_row = None THEN 0 ELSE session_row.latest_turn_number

RowsOfRun(p) == SelectSeq(messages, LAMBDA m : m.run = RunId(p))

RowsOfTurn(n) == SelectSeq(messages, LAMBDA m : m.turn_number = n)

FallbackPair == create_fallback_messages(user_query_message)

\* C3: a session's latest_turn_number never decreases, over any sequence
\* and interleaving of turns on the session, overlapping turns included.
C3_LatestTurnNeverDecreases ==
    [][(session_row # None /\ session_row' # None)
          => session_row'.latest_turn_number >= session_row.latest_turn_number]_vars

\* C4: whenever latest_turn_number is n > 0, messages with turn_number n are
\* stored; the step that changes latest_turn_number is the one that adds
\* the turn's rows, and it sets latest_turn_number to their turn number.
C4_LatestTurnIsStored ==
    LatestTurn > 0 => RowsOfTurn(LatestTurn) # <<>>

C4_AdvanceWithRows ==
    (session_row # None /\ session_row' # None /\ session_row' # session_row)
        => /\ Len(messages') > Len(messages)
           /\ \A i \in (Len(messages) + 1)..Len(messages') :
                  messages'[i].turn_number = session_row'.latest_turn_number

C4_AtomicAdvance ==
    [](C4_LatestTurnIsStored) /\ [][C4_AdvanceWithRows]_vars

\* two turns are stored, the later one written by the other task
C4_Witness ==
    /\ LatestTurn = 2
    /\ Len(RowsOfTurn(2)) = 2
    /\ Len(RowsOfTurn(1)) = 2
    /\ RowsOfTurn(1)[1].run.task # RowsOfTurn(2)[1].run.task

C6_StepLimitFallsBack ==
    \A p \in Procs :
        /\ runner[p].state.step > MAX_STEPS
               => /\ runner[p].error = "MaxStepsReachedError"
                  /\ runner[p].pc # "generating"
        /\ runner[p].error = "MaxStepsReachedError"
               => /\ runner[p].pc \in {"fallback", "persist", "insert_messages",
                                       "respond", "done"}
                  /\ runner[p].pc # "fallback"
                         => /\ runner[p].result.fallback
                            /\ runner[p].result.messages = FallbackPair
                  /\ runner[p].pc = "done"
                         => /\ runner[p].outcome.kind = "returned"
                            /\ runner[p].outcome.messages = FallbackPair
                            /\ runner[p].future \in {"pending", "result"}

\* a run that passed the step ceiling has returned its fallback result
C6_Witness ==
    \E p \in Procs :
        /\ runner[p].error = "MaxStepsReachedError"
        /\ runner[p].pc = "done"
        /\ runner[p].outcome.kind = "returned"
        /\ Len(RowsOfRun(p)) = 2

\* C7: a failure other than an identity error while the query is handled
\* (a failed session or summary retrieval or session creation included)
\* ends with run returning a result that carries the fallback messages.
C7_OtherFailuresReturnFallback ==
    \A p \in Procs :
        (/\ runner[p].pc = "done"
         /\ runner[p].error # ""
         /\ runner[p].error \notin IdentityErrors)
            => /\ runner[p].outcome.kind = "returned"
               /\ runner[p].outcome.messages = FallbackPair

\* C8: an identity error raised by context or session resolution is
\* re-raised unchanged: no fallback result, no row of the turn is stored,
\* and a streaming run ends with an 'error' event and a failed future.
C8_IdentityErrorsPropagate ==
    \A p \in Procs :
        runner[p].error \in IdentityErrors
            => /\ runner[p].pc \in {"raise", "done"}
               /\ runner[p].result = None
               /\ RowsOfRun(p) = <<>>
               /\ \A i \in DOMAIN summaries : summaries[i].id # RunId(p)
               /\ "fallback_text" \notin {runner[p].queue[i] : i \in DOMAIN runner[p].queue}
               /\ runner[p].pc = "done"
                      => /\ runner[p].outcome.kind = "raised"
                         /\ runner[p].outcome.error = runner[p].error
                         /\ runner[p].mode = "run_stream"
                                => /\ runner[p].future = runner[p].error
                                   /\ runner[p].queue = <<"error", "end">>

\* a streaming run has ended with a failed message retrieval
C8_Witness ==
    \E p \in Procs :
        /\ runner[p].pc = "done"
        /\ runner[p].error = "MessageRetrievalError"
        /\ runner[p].mode = "run_stream"
        /\ runner[p].future = "MessageRetrievalError"

\* C9: when the model call or the summary call raises in any iteration,
\* _handle_query returns fallback = true, regenerated_summary = false, the
\* query and the apology, and the summary in memory or else the latest
\* persisted one.
C9_GenerationFailureStep ==
    \A p \in Procs :
        (/\ runner[p].error = "ProviderError"
         /\ runner[p].pc = "fallback"
         /\ runner'[p].pc = "persist")
            => runner'[p].result =
                   QueryResult(FallbackPair,
                               IF runner[p].summary # None
                               THEN runner[p].summary
                               ELSE get_latest_summary(summaries),
                               TRUE, FALSE)

C9_GenerationFailureFallsBack == [][C9_GenerationFailureStep]_vars

\* the model raised in the second iteration, no summary was in memory, and
\* the fallback carries the summary another turn persisted meanwhile
C9_Witness ==
    \E p \in Procs :
        /\ runner[p].error = "ProviderError"
        /\ runner[p].pc = "persist"
        /\ runner[p].state.step = 1
        /\ runner[p].summary = None
        /\ runner[p].result.summary # None

\* C10: a run cancelled while the model response is generated returns the
\* query and the AI message with the content accumulated so far, and
\* latest_turn_number is not advanced before the persistence write of
\* those two messages completes.
C10_CancelKeepsPartial ==
    \A p \in Procs :
        runner[p].cancelled =>
            /\ runner[p].pc \in {"persist", "insert_messages", "respond"}
                   => /\ runner[p].result.messages =
                             <<user_query_message, ai_message(runner[p].chunks)>>
                      /\ ~runner[p].result.fallback
            /\ runner[p].pc \in {"persist", "insert_messages"}
                   => /\ LatestTurn = runner[p].state.turn_number - 1
                      /\ RowsOfRun(p) = <<>>
            /\ runner[p].pc = "respond"
                   => /\ LatestTurn = runner[p].state.turn_number
                      /\ Len(RowsOfRun(p)) = 2
                      /\ RowsOfRun(p)[2].chunks = runner[p].chunks
            /\ runner[p].pc = "done"
                   => /\ runner[p].outcome.kind = "returned"
                      /\ Len(runner[p].outcome.messages) = 2
                      /\ RowsOfRun(p)[2].chunks = runner[p].outcome.messages[2].chunks

\* a run cancelled after a streamed chunk has persisted its partial answer
C10_Witness ==
    \E p \in Procs :
        /\ runner[p].cancelled
        /\ runner[p].pc = "respond"
        /\ runner[p].chunks = 1
        /\ Len(RowsOfRun(p)) = 2
        /\ RowsOfRun(p)[2].chunks = 1

\* ------------------------------------------------------------------------
\* Claims about cancellation, streaming and the task registry
\* ------------------------------------------------------------------------
\* C11: when the cancellation is seen while the model and the summariser
\* are awaited, in any iteration, _handle_query returns fallback = false,
\* regenerated_summary = false and the summary that context assembly
\* returned, and no summary generated in this turn is carried or stored,
\* also when an earlier iteration had returned a new summary.
C11_CancelUsesExistingSummary ==
    \A p \in Procs :
        runner[p].cancelled =>
            /\ runner[p].pc \in {"persist", "insert_messages", "respond"}
                   => /\ ~runner[p].result.fallback
                      /\ ~runner[p].result.regenerated_summary
                      /\ runner[p].result.summary = runner[p].context.summary
            /\ \A i \in DOMAIN summaries : summaries[i].id # RunId(p)

\* cancelled in the second iteration, after the first one returned a summary
C11_Witness ==
    \E p \in Procs :
        /\ runner[p].cancelled
        /\ runner[p].pc = "persist"
        /\ runner[p].state.step = 1
        /\ runner[p].new_summary # None
        /\ runner[p].result.summary # runner[p].new_summary

\* C12: once update_user_session has started it runs to completion even
\* if the run that awaits it is cancelled: with a store that does not fail
\* the two messages of the turn (and its regenerated summary) are stored
\* and latest_turn_number is theirs; a finished turn is stored in full or
\* not at all.
C12_Persisted(p) ==
    /\ Len(RowsOfRun(p)) = 2
    /\ RowsOfRun(p)[1].turn_number = LatestTurn
    /\ runner[p].result.regenerated_summary
           => \E i \in DOMAIN summaries : summaries[i].id = RunId(p)

C12_NothingPersisted(p) ==
    /\ RowsOfRun(p) = <<>>
    /\ \A i \in DOMAIN summaries : summaries[i].id # RunId(p)

C12_NoStoreFault == env.faults = MaxStreamFaults

C12_Safe ==
    \A p \in Procs :
        (runner[p].pc = "done" /\ C12_NoStoreFault)
            => /\ C12_Persisted(p) \/ C12_NothingPersisted(p)
               /\ (runner[p].detached /\ runner[p].session # None)
                      => C12_Persisted(p)

C12_ShieldedWriteCompletes ==
    /\ []C12_Safe
    /\ \A p \in Procs : runner[p].detached ~> runner[p].pc = "done"

\* a run cancelled between the summary write and the message write has
\* stored its summary and its two messages
C12_Witness ==
    \E p \in Procs :
        /\ runner[p].detached
        /\ runner[p].pc = "done"
        /\ C12_NoStoreFault
        /\ runner[p].result.regenerated_summary
        /\ C12_Persisted(p)

Events(q) == {q[i] : i \in DOMAIN q}

Count(q, S) == Cardinality({i \in DOMAIN q : q[i] \in S})

\* C13: whenever cancel_task(session id) takes effect on a registered
\* streaming run, at any of its await points, the run puts a 'cancelled'
\* event on the queue and its result future fails with CancelledError.
C13_CancelEndsCancelled ==
    \A p \in Procs :
        (/\ runner[p].mode = "run_stream"
         /\ runner[p].cancelled
         /\ runner[p].pc = "done")
            => /\ "cancelled" \in Events(runner[p].queue)
               /\ runner[p].future = "CancelledError"

TerminalEvents == {"data-session", "cancelled", "error"}

\* C14: a streaming run puts exactly one terminal event on the queue,
\* 'data-session' when it returns, 'cancelled' when it is cancelled,
\* 'error' when it raises, and resolves its future once, with the result,
\* a CancelledError or that error.
C14_Outcome ==
    \A p \in Procs :
        runner[p].mode = "run_stream" =>
            LET r == runner[p]
                terminal == CASE r.outcome.kind = "returned" -> "data-session"
                              [] r.outcome.kind = "cancelled" -> "cancelled"
                              [] OTHER -> "error"
            IN  IF r.outcome.kind = "none"
                THEN /\ Count(r.queue, TerminalEvents) = 0
                     /\ r.future = "pending"
                ELSE /\ Count(r.queue, TerminalEvents) = 1
                     /\ terminal \in Events(r.queue)
                     /\ r.future = CASE r.outcome.kind = "returned" -> "result"
                                      [] r.outcome.kind = "cancelled" -> "CancelledError"
                                      [] OTHER -> r.outcome.error
                     /\ r.future # "pending"

C14_ResolvedOnce ==
    \A p \in Procs :
        (runner[p].future # "pending" /\ runner'[p].run_no = runner[p].run_no)
            => runner'[p].future = runner[p].future

Frames(q) ==
    [i \in DOMAIN q |->
        IF q[i] = "end" THEN format_sse_done ELSE format_sse_event(q[i])]

\* C15: the end-of-stream sentinel is enqueued exactly once, and a consumer
\* that drains the event sequence has received every enqueued event in
\* FIFO order, each as one SSE data line, then exactly one done marker.
C15_ConsumerSeesEverything ==
    \A p \in Procs :
        runner[p].consumer = "ended"
            => /\ Count(runner[p].queue, {"end"}) = 1
               /\ runner[p].received = Frames(runner[p].queue)

\* C16: the result future resolves whether or not the consumer pulls: the
\* run never waits for the queue, and when the future holds the result the
\* persistence step is over and the messages of the result are the stored
\* ones (a fallback result may have found no session to store them in).
C16_ResultMeansStored ==
    \A p \in Procs :
        runner[p].future = "result"
            => /\ runner[p].outcome.kind = "returned"
               /\ runner[p].pc = "done"
               /\ RowsOfRun(p) = <<>> => runner[p].result.fallback
               /\ RowsOfRun(p) # <<>>
                      => /\ Len(RowsOfRun(p)) = 2
                         /\ \A i \in 1..2 :
                                /\ RowsOfRun(p)[i].kind =
                                       runner[p].outcome.messages[i].kind
                                /\ RowsOfRun(p)[i].chunks =
                                       runner[p].outcome.messages[i].chunks

C16_FutureResolves ==
    /\ []C16_ResultMeansStored
    /\ \A p \in Procs :
           (runner[p].mode = "run_stream" /\ runner[p].pc \notin {"idle", "done"})
               ~> runner[p].future # "pending"

\* the consumer went away after one event and the future holds the result
C16_Witness ==
    \E p \in Procs :
        /\ runner[p].consumer = "stopped"
        /\ runner[p].pulled = 1
        /\ Len(runner[p].queue) > 2
        /\ runner[p].future = "result"
        /\ Len(RowsOfRun(p)) = 2

\* C17: while a streaming run for a session id has registered and not yet
\* finished, the registry maps that session id to the run's task, also for
\* two overlapping runs on the same session id.
C17_RegisteredWhileRunning ==
    \A p \in Procs :
        (/\ runner[p].mode = "run_stream"
         /\ runner[p].session_id # "none"
         /\ runner[p].pc \notin {"idle", "done"})
            => registry[runner[p].session_id] = RunId(p)

\* C18: when a streaming run has finished, by return, error or
\* cancellation, the registry does not hold its task under its session id.
C18_UnregisteredWhenFinished ==
    \A p \in Procs :
        (/\ runner[p].mode = "run_stream"
         /\ runner[p].session_id # "none"
         /\ runner[p].outcome.kind # "none")
            => registry[runner[p].session_id] # RunId(p)

\* a registered streaming run has ended with an error
C18_Witness ==
    \E p \in Procs :
        /\ runner[p].mode = "run_stream"
        /\ runner[p].session_id # "none"
        /\ runner[p].outcome.kind = "raised"
        /\ registry[runner[p].session_id] = None

C20_NothingLeftRunning ==
    \A p \in Procs :
        runner[p].pc = "fallback" => runner[p].dangling = "none"

\* ------------------------------------------------------------------------
\* Claims about the turn engine's loop
\* ------------------------------------------------------------------------
EngineTransitions(q) == {<<q[i], q[i + 1]>> : i \in 1..(Len(q) - 1)}

C21_Claimed ==
    {<<"AWAITING_CONTEXT", "GENERATING">>,
     <<"GENERATING", "TOOL_CONTINUE">>, <<"TOOL_CONTINUE", "GENERATING">>,
     <<"GENERATING", "TURN_COMPLETE">>, <<"TURN_COMPLETE", "DONE">>,
     <<"GENERATING", "CANCELLED">>, <<"GENERATING", "FALLBACK">>}

\* C21 as claimed: the states the engine goes through for a query follow
\* AWAITING_CONTEXT -> GENERATING -> {TOOL_CONTINUE (back to GENERATING) |
\* TURN_COMPLETE} -> DONE, and CANCELLED and FALLBACK are entered only
\* from GENERATING.
C21_StateSequence ==
    \A p \in Procs :
        LET q == runner[p].engine
        IN  /\ q # <<>> => q[1] = "AWAITING_CONTEXT"
            /\ EngineTransitions(q) \subseteq C21_Claimed

\* C21 as amended: the same sequence, with CANCELLED and FALLBACK entered
\* from AWAITING_CONTEXT or from GENERATING, and FALLBACK also from
\* TOOL_CONTINUE when the step ceiling is passed; nothing follows DONE,
\* CANCELLED or FALLBACK.
C21_StateSequenceAmended ==
    \A p \in Procs :
        LET q == runner[p].engine
        IN  /\ q # <<>> => q[1] = "AWAITING_CONTEXT"
            /\ EngineTransitions(q) \subseteq
                   C21_Claimed \cup {<<"AWAITING_CONTEXT", "CANCELLED">>,
                                     <<"AWAITING_CONTEXT", "FALLBACK">>,
                                     <<"TOOL_CONTINUE", "FALLBACK">>}

\* a query went through a tool call and completed, after a query during
\* which a store or provider call failed
C21_Witness ==
    \E p \in Procs :
        /\ runner[p].engine = <<"AWAITING_CONTEXT", "GENERATING",
                                "TOOL_CONTINUE", "GENERATING",
                                "TURN_COMPLETE", "DONE">>
        /\ runner[p].run_no = 2
        /\ runner[p].pc = "persist"
        /\ env.faults = 0

\* the query started from step = 0: every step so far was made by one of
\* its own tool-call iterations
StartedAtStepZero(r) == r.engine # <<>> /\ r.state.step = r.appended

InHandleQuery(r) == r.pc \in {"context", "generating", "fallback"}

\* C22: starting from step = 0, a turn in which the model keeps asking for
\* tool calls invokes the response generator at most MAX_STEPS + 1 times
\* and then ends in the step-limit failure, which carries the current and
\* the maximum step, with no further model invocation; and every call of
\* _handle_query comes to an end when the model and store calls do.
C22_StepBound ==
    \A p \in Procs :
        StartedAtStepZero(runner[p]) =>
            /\ runner[p].invocations <= MAX_STEPS + 1
            /\ (runner[p].pc = "generating"
                    /\ runner[p].invocations = MAX_STEPS + 1)
                   => runner[p].state.step = MAX_STEPS
            /\ runner[p].error = "MaxStepsReachedError"
                   => /\ runner[p].invocations = MAX_STEPS + 1
                      /\ runner[p].pc # "generating"
                      /\ runner[p].step_error =
                             [current_step |-> MAX_STEPS + 1,
                              max_steps |-> MAX_STEPS]

C22_StepLimitTerminates ==
    /\ []C22_StepBound
    /\ \A p \in Procs :
           InHandleQuery(runner[p]) ~> ~InHandleQuery(runner[p])

\* the model asked for a tool call MAX_STEPS + 1 times in one query and the
\* step-limit failure is being handled
C22_Witness ==
    \E p \in Procs :
        /\ StartedAtStepZero(runner[p])
        /\ runner[p].error = "MaxStepsReachedError"
        /\ runner[p].pc = "fallback"
        /\ runner[p].appended = MAX_STEPS + 1
        /\ runner[p].invocations = MAX_STEPS + 1

\* C23: step is reset per turn: at the first model invocation of every
\* query a Runner handles, step is 0, so only a query that itself made
\* more than MAX_STEPS tool calls ends in the step-limit failure, whatever
\* earlier queries on the same Runner and SessionManager did.
C23_StepResetPerTurn ==
    \A p \in Procs :
        /\ (runner[p].pc = "generating" /\ runner[p].invocations = 1)
               => runner[p].state.step = 0
        /\ (runner[p].engine # <<>>
                /\ runner[p].error = "MaxStepsReachedError")
               => runner[p].appended > MAX_STEPS

\* _handle_query has returned the result of a completed turn
TurnSucceeded(r) == r.engine # <<>> /\ r.engine[Len(r.engine)] = "DONE"

\* C24: on a successful turn the returned summary is the one the last
\* iteration that produced a summary returned, or the assembler's active
\* summary if no iteration produced one, and regenerated_summary is true
\* exactly when some iteration returned a summary.
C24_LastSummaryCarried ==
    \A p \in Procs :
        TurnSucceeded(runner[p]) =>
            /\ ~runner[p].result.fallback
            /\ runner[p].result.regenerated_summary
                   <=> runner[p].returned_in > 0
            /\ runner[p].returned_in = 0
                   => runner[p].result.summary = runner[p].context.summary
            /\ runner[p].returned_in > 0
                   => /\ runner[p].result.summary.origin = RunId(p)
                      /\ runner[p].result.summary.iteration =
                             runner[p].returned_in

\* a turn of three iterations whose second iteration was the last one to
\* return a summary
C24_Witness ==
    \E p \in Procs :
        /\ TurnSucceeded(runner[p])
        /\ runner[p].invocations = 3
        /\ runner[p].returned_in = 2
        /\ runner[p].result.regenerated_summary
        /\ runner[p].result.summary.iteration = 2

\* C25: within one call of _handle_query the Context Assembler is invoked
\* exactly once, before the first model invocation; an iteration that
\* follows a tool call works on the conversation built then, with the AI
\* message appended, and neither assembles the context again nor computes
\* the turn number again.
C25_AssembledOnce ==
    \A p \in Procs :
        /\ runner[p].engine # <<>>
               => /\ runner[p].assembled = 1
                  /\ Count(runner[p].engine, {"AWAITING_CONTEXT"}) = 1
        /\ runner[p].invocations > 0
               => /\ runner[p].assembled = 1
                  /\ runner[p].context # None
                  /\ runner[p].context_task = "done"
                  /\ runner[p].appended >= runner[p].invocations - 1

C25_ContinuationReuses ==
    \A p \in Procs :
        (/\ runner[p].pc = "generating"
         /\ runner'[p].run_no = runner[p].run_no
         /\ runner'[p].invocations = runner[p].invocations + 1)
            => /\ runner'[p].pc = "generating"
               /\ runner'[p].context = runner[p].context
               /\ runner'[p].fetched = runner[p].fetched
               /\ runner'[p].summary = runner[p].summary
               /\ runner'[p].state.turn_number = runner[p].state.turn_number
               /\ runner'[p].appended = runner[p].appended + 1

C25_ContextAssembledOnce ==
    []C25_AssembledOnce /\ [][C25_ContinuationReuses]_vars

\* the third model invocation of a query on an existing session
C25_Witness ==
    \E p \in Procs :
        /\ runner[p].pc = "generating"
        /\ runner[p].invocations = 3
        /\ runner[p].appended = 2
        /\ runner[p].assembled = 1
        /\ runner[p].fetched # <<>>

\* ------------------------------------------------------------------------
\* Claims about what the Context Assembler fetches and returns
\* ------------------------------------------------------------------------
\* C26: the messages the Context Assembler fetches for a turn all belong
\* to the N = MAX_TURNS_TO_FETCH most recent turns of the session: every
\* fetched message has turn_number greater than latest_turn_number - N.
C26_FetchedAreRecent ==
    \A p \in Procs :
        \A i \in DOMAIN runner[p].fetched :
            runner[p].fetched[i].turn_number
                > runner[p].lts_at_start - env.max_turns

\* the fetched messages after the summary boundary, and those at or before it
AfterBoundary ==
    SelectSeq(asm_in.all_messages,
              LAMBDA m : m.turn_number > end_turn_number(asm_in.summary))

BeforeBoundary ==
    SelectSeq(asm_in.all_messages,
              LAMBDA m : m.turn_number <= end_turn_number(asm_in.summary))

\* C27: after assemble, the counters written to the state and handed to
\* the summarizer are: turns_after_last_summary = the number of distinct
\* turn numbers among the fetched messages after the summary boundary, and
\* total_token_after_last_summary = the sum of the token counts of exactly
\* those messages.
C27_CountersOfTheTail ==
    asm_out # None =>
        /\ asm_out.turns_after_last_summary = Cardinality(TurnsOf(AfterBoundary))
        /\ asm_out.total_token_after_last_summary = SumTokens(AfterBoundary)

\* the last k elements of s
Suffix(s, k) == SubSeq(s, Len(s) - k + 1, Len(s))

\* the total after the k most recent pre-summary messages were added
TotalWith(k) == SumTokens(AfterBoundary) + SumTokens(Suffix(BeforeBoundary, k))

\* how many pre-summary messages the claim lets into the window
ShortestReaching ==
    IF SumTokens(AfterBoundary) >= MAX_TOKEN_THRESHOLD THEN 0
    ELSE IF \E k \in 1..Len(BeforeBoundary) : TotalWith(k) >= MAX_TOKEN_THRESHOLD
    THEN CHOOSE k \in 1..Len(BeforeBoundary) :
             /\ TotalWith(k) >= MAX_TOKEN_THRESHOLD
             /\ \A j \in 1..(k - 1) : TotalWith(j) < MAX_TOKEN_THRESHOLD
    ELSE Len(BeforeBoundary)

\* C28: pre-summary messages are pulled into the window only while the
\* running total is below the threshold, most recent first from the
\* summary boundary: the pre-summary part of the window is the shortest
\* suffix of the pre-summary messages that brings the total to the
\* threshold, all of them if it is never reached, none if the post-summary
\* messages alone reach it; the post-summary messages follow it.
C28_ShortestSuffixPulled ==
    asm_out # None =>
        asm_out.messages = Suffix(BeforeBoundary, ShortestReaching) \o AfterBoundary

\* some but not all of several pre-summary messages were pulled
C28_Witness ==
    /\ asm_out # None
    /\ Len(BeforeBoundary) = 3
    /\ ShortestReaching = 2
    /\ Len(asm_out.messages) = 2
    /\ asm_out.messages[1] = BeforeBoundary[2]

\* C29: the window returned by assemble is in chronological order: it is
\* an order-preserving subsequence of the fetched list, which is ordered
\* by creation, for every fetched list and every summary boundary, also
\* when a message at or before the boundary was created after a message
\* past the boundary.
C29_WindowChronological ==
    asm_out # None =>
        /\ \A i \in DOMAIN asm_out.messages :
               InSeq(asm_out.messages[i], asm_in.all_messages)
        /\ \A i, j \in DOMAIN asm_out.messages :
               i < j => asm_out.messages[i].id < asm_out.messages[j].id

\* ------------------------------------------------------------------------
\* Claims about the fallback of a streaming run
\* ------------------------------------------------------------------------
\* C30: on a fallback outcome in a streaming run the original query is
\* kept and paired with the fixed apology, and the apology is on the queue
\* as a stream event before the terminal 'data-session' event of the run.
C30_ApologyBeforeSessionData ==
    \A p \in Procs :
        (/\ runner[p].mode = "run_stream"
         /\ runner[p].result # None
         /\ runner[p].result.fallback)
            => /\ runner[p].result.messages =
                      <<user_query_message, error_message_dto>>
               /\ "fallback_text" \in Events(runner[p].queue)
               /\ \A i \in DOMAIN runner[p].queue :
                      runner[p].queue[i] = "data-session"
                          => /\ \E j \in 1..(i - 1) :
                                    runner[p].queue[j] = "fallback_text"
                             /\ runner[p].outcome.messages =
                                    <<user_query_message, error_message_dto>>

\* a streaming run that fell back has stored the pair and returned
C30_Witness ==
    \E p \in Procs :
        /\ runner[p].mode = "run_stream"
        /\ runner[p].result # None
        /\ runner[p].result.fallback
        /\ runner[p].outcome.kind = "returned"
        /\ "data-session" \in Events(runner[p].queue)
        /\ Len(RowsOfRun(p)) = 2
        /\ RowsOfRun(p)[2].kind = "apology"

\* ------------------------------------------------------------------------
\* Claims about the end of a stream, the turn numbers of overlapping turns
\* and the persistence step
\* ------------------------------------------------------------------------
\* the positions of the queue that hold the end-of-stream sentinel
SentinelAt(q) == {i \in DOMAIN q : q[i] = "end"}

\* C31: no event is enqueued on the queue of a streaming run after that
\* run's end-of-stream sentinel, whenever the run is cancelled, also when
\* the shielded persistence step is still running then and streams a
\* fallback response later.
C31_NothingAfterSentinel ==
    \A p \in Procs :
        \A i \in SentinelAt(runner[p].queue) : i = Len(runner[p].queue)

\* the same, for the runs whose model call and summary call both settled: the
\* only work that outlives such a run is the shielded persistence step
C31_NothingAfterSentinelOfShield ==
    \A p \in Procs :
        runner[p].dangling = "none" =>
            \A i \in SentinelAt(runner[p].queue) : i = Len(runner[p].queue)

\* C32: no two distinct turns of a session persist their messages under the
\* same turn number, however the turns on that session interleave.
C32_TurnNumbersDistinct ==
    \A i, j \in DOMAIN messages :
        messages[i].turn_number = messages[j].turn_number
            => messages[i].run = messages[j].run

\* the step in which update_user_session, after a failed first attempt,
\* inserts again for the run of task p
SecondInsertOf(p) ==
    /\ runner[p].pc = "fallback_insert"
    /\ runner'[p].pc # "fallback_insert"

\* the second insert of task p went through: the rows it added are the
\* fallback pair under the turn number of the turn, they are the only rows
\* of the turn, and latest_turn_number is that turn number, one more than
\* before for a turn that took its number at context assembly
C33_FallbackPairStored ==
    \A p \in Procs :
        (SecondInsertOf(p) /\ env' = env) =>
            LET n == Len(messages)
                turn_number == runner[p].state.turn_number
            IN  /\ Len(messages') = n + 2
                /\ SubSeq(messages', 1, n) = messages
                /\ \A i \in 1..2 :
                       /\ messages'[n + i].kind = FallbackPair[i].kind
                       /\ messages'[n + i].error = FallbackPair[i].error
                       /\ messages'[n + i].turn_number = turn_number
                       /\ messages'[n + i].run = RunId(p)
                /\ \A i \in 1..n : messages[i].run # RunId(p)
                /\ session_row'.latest_turn_number = turn_number
                /\ runner[p].invocations >= 1 => LatestTurn' = LatestTurn + 1

\* the fallback pair is what update_user_session returns to the run
C33_FallbackPairReturned ==
    \A p \in Procs :
        (/\ runner[p].pc = "respond"
         /\ runner[p].insert_failed
         /\ runner'[p].outcome.kind = "returned")
            => runner'[p].outcome.messages = FallbackPair

\* the second insert of task p failed as well: nothing of the turn is
\* stored, latest_turn_number is left alone, and the error reaches the run
\* that awaits update_user_session, if one still does
C33_SecondFailurePropagates ==
    \A p \in Procs :
        (SecondInsertOf(p) /\ env' # env) =>
            /\ messages' = messages
            /\ session_row' = session_row
            /\ \A i \in DOMAIN messages : messages[i].run # RunId(p)
            /\ ~runner[p].detached =>
                   /\ runner'[p].outcome.kind = "raised"
                   /\ runner'[p].outcome.error = "MessageCreationError"

EmitsSessionData(p) ==
    /\ runner[p].mode = "run_stream"
    /\ runner[p].future = "pending"
    /\ runner'[p].future = "result"
    /\ "data-session" \in Events(runner'[p].queue)

\* at that step the messages of the result are the stored rows of the turn,
\* under the turn number of the turn, and latest_turn_number is that number
C34_StoredWhenEmitted ==
    \A p \in Procs :
        EmitsSessionData(p) =>
            LET rows == RowsOfRun(p)
                result == runner'[p].outcome.messages
            IN  /\ Len(rows) = Len(result)
                /\ \A i \in DOMAIN rows :
                       /\ rows[i].kind = result[i].kind
                       /\ rows[i].chunks = result[i].chunks
                       /\ rows[i].turn_number = runner[p].state.turn_number
                /\ LatestTurn = runner[p].state.turn_number

\* C34: whenever a streaming run emits the terminal 'data-session' event
\* (and the result future resolves with a result), the messages of that
\* result are already stored under the turn number of that turn and
\* latest_turn_number has been advanced for it.
C34_SessionDataMeansStored == [][C34_StoredWhenEmitted]_vars

\* the QueryResult of task p came from the cancellation handler or from the
\* fallback handler of _handle_query
CancelledOrFallbackResult(p) ==
    \/ runner[p].result.fallback
    \/ \E i \in DOMAIN runner[p].engine : runner[p].engine[i] = "CANCELLED"

\* a step that changes the summaries adds one row at the end, for a turn
\* whose result has regenerated_summary = true and that has no row yet
C35_OnlyAppended ==
    summaries' # summaries =>
        /\ Len(summaries') = Len(summaries) + 1
        /\ SubSeq(summaries', 1, Len(summaries)) = summaries
        /\ \E p \in Procs :
               /\ runner[p].result # None
               /\ runner[p].result.regenerated_summary
               /\ ~CancelledOrFallbackResult(p)
               /\ summaries'[Len(summaries')] =
                      create_with_session_id(runner[p].result.summary)
               /\ summaries'[Len(summaries')].id = RunId(p)
               /\ \A j \in DOMAIN summaries : summaries[j].id # RunId(p)

\* C35: summaries are append-only under turn processing: a turn never
\* modifies or deletes an existing summary, and it creates at most one new
\* summary, only when its result has regenerated_summary = true, so never
\* for a cancelled or fallback result.
C35_SummariesAppendOnly == [][C35_OnlyAppended]_vars

\* two turns of the task each stored their summary, the first one unchanged
C35_Witness ==
    /\ Len(summaries) = 2
    /\ summaries[1].id.no = 1
    /\ summaries[2].id.no = 2
    /\ \E p \in Procs :
           /\ runner[p].pc = "insert_messages"
           /\ runner[p].persisted_summary = summaries[2]

\* ------------------------------------------------------------------------
\* Claims about a Runner that is used for more than one query
\* ------------------------------------------------------------------------
\* the rows the first query of task p persisted
RowsOfFirstTurn(p) ==
    SelectSeq(messages, LAMBDA m : m.run = [task |-> p, no |-> 1])

\* C36: when two queries are run one after the other through the same Runner
\* and SessionManager on a session that the first query created, the context
\* assembled for the second query contains the messages the first turn
\* persisted.
C36_SecondQuerySeesFirstTurn ==
    \A p \in Procs :
        (/\ runner[p].reused
         /\ runner[p].run_no = 2
         /\ runner[p].new_chat
         /\ runner[p].pc = "generating"
         /\ RowsOfFirstTurn(p) # <<>>)
            => \A i \in DOMAIN RowsOfFirstTurn(p) :
                   \E j \in DOMAIN runner[p].context.messages :
                       /\ runner[p].context.messages[j].kind =
                              RowsOfFirstTurn(p)[i].kind
                       /\ runner[p].context.messages[j].run =
                              RowsOfFirstTurn(p)[i].run

\* ------------------------------------------------------------------------
\* Claims about the finish event and the registry
\* ------------------------------------------------------------------------
\* a streaming run of task p succeeded: the engine returned the result of a
\* turn, not the fallback, and run_chat resolved the future with it
StreamSucceeded(p) ==
    /\ runner[p].mode = "run_stream"
    /\ runner[p].outcome.kind = "returned"
    /\ ~runner[p].result.fallback

\* the queue of a streaming run that succeeded ends with the finish event,
\* the 'data-session' event and the sentinel; the one finish event comes
\* after every event the provider streamed
C37_FinishOrder ==
    \A p \in Procs :
        StreamSucceeded(p) =>
            LET q == runner[p].queue
                n == Len(q)
            IN  /\ n >= 3
                /\ q[n - 2] = "finish"
                /\ q[n - 1] = "data-session"
                /\ q[n] = "end"
                /\ Count(q, {"finish"}) = 1
                /\ \A j \in DOMAIN q : q[j] = "delta" => j < n - 2

\* the step in which a run that succeeds puts the finish event on the queue
\* is taken after update_user_session has returned, with the rows of the
\* turn stored
C37_FinishEnqueued ==
    \A p \in Procs :
        (/\ runner'[p].run_no = runner[p].run_no
         /\ Count(runner'[p].queue, {"finish"})
                > Count(runner[p].queue, {"finish"})
         /\ runner'[p].outcome.kind = "returned"
         /\ ~runner[p].result.fallback)
            => /\ runner[p].pc = "respond"
               /\ Len(RowsOfRun(p)) = 2
               /\ LatestTurn = runner[p].state.turn_number

\* C37: in a streaming run that succeeds, the 'finish' event is enqueued
\* only after the persistence of the turn has completed, after every event
\* that came from the provider, and before the terminal 'data-session'
\* event.
C37_FinishAfterPersistence ==
    []C37_FinishOrder /\ [][C37_FinishEnqueued]_vars

\* a streaming run streamed a chunk, stored its turn and succeeded
C37_Witness ==
    \E p \in Procs :
        /\ StreamSucceeded(p)
        /\ runner[p].queue = <<"delta", "finish", "data-session", "end">>
        /\ Len(RowsOfRun(p)) = 2

\* the run of task p after the step has streaming disabled (run, or
\* run_stream with options.stream = False) or has no session id
Unregistered(p) ==
    \/ runner'[p].mode \in {"run", "run_stream_unstreamed"}
    \/ runner'[p].session_id = "none"

\* no step of such a run, from its start to its end, changes the registry
C38_StepLeavesRegistry ==
    \A p \in Procs :
        (runner'[p] # runner[p] /\ Unregistered(p)) => registry' = registry

\* C38: a run with streaming disabled (run, or run_stream with
\* options.stream = False) or without a session id leaves the cancellation
\* registry unchanged: it neither registers nor unregisters an entry, so it
\* never removes the registration of a concurrent streaming run.
C38_RegistryUntouched == [][C38_StepLeavesRegistry]_vars

\* a run_stream with options.stream = False on session s1 has returned while
\* the streaming run of the other task on s1 is registered and running
C38_Witness ==
    \E p, o \in Procs :
        /\ runner[p].mode = "run_stream_unstreamed"
        /\ runner[p].session_id = "s1"
        /\ runner[p].outcome.kind = "returned"
        /\ runner[o].mode = "run_stream"
        /\ runner[o].pc \in {"generating", "persist"}
        /\ registry["s1"] = RunId(o)

\* ------------------------------------------------------------------------
\* Claims about the initialisation of persistence
\* ------------------------------------------------------------------------
\* C39: persistence is initialised exactly once per process lifecycle: for
\* any sequence or interleaving of initialize_persistence calls between
\* shutdowns, at most one backend initialisation takes effect and every
\* call that returned has returned the one active context.
C39_InitialisedOnce ==
    /\ Cardinality(persistence.initialised) <= 1
    /\ \A p \in Procs :
           persistence.calls[p].pc = "returned"
               => persistence.calls[p].returned = persistence.active_context

\* the part of C39 about another backend: a call that names a backend other
\* than the active one raises and leaves the active context unchanged
C39_OtherBackendRaises ==
    [][\A p \in Procs :
           (/\ persistence.active_backend # "none"
            /\ persistence'.calls[p].no # persistence.calls[p].no
            /\ persistence'.calls[p].backend # persistence.active_backend)
               => /\ persistence'.calls[p].pc = "raised"
                  /\ persistence'.active_context = persistence.active_context
                  /\ persistence'.active_backend = persistence.active_backend]_vars
====
